---- MODULE Spec2Model ----
(***************************************************************************)
(* Hybrid retrieval and ranking subsystem of the document question-        *)
(* answering service: the vector store (backend/vectorstore/store.py),     *)
(* the BM25 index cache, rank fusion and re-ranking                        *)
(* (backend/rag/retriever.py), the retrieval orchestrator                  *)
(* (backend/rag/chain.py) and the ingestion that mutates the store         *)
(* (backend/services/ingestion_service.py).                                *)
(*                                                                         *)
(* Texts are sequences of whitespace-separated words; an optional value    *)
(* (Python's None or a value) is the empty tuple or a 1-tuple.  Scores of  *)
(* the third-party models (embedding distance, BM25, cross-encoder) are    *)
(* fixed deterministic integer functions of their inputs; fusion scores    *)
(* are fixed-point numbers.                                                *)
(***************************************************************************)
EXTENDS Integers, Sequences, FiniteSets, TLC

\* ------------------------------------------------------------------------
\* Program constants
\* ------------------------------------------------------------------------
RETRIEVAL_TOP_K == 15
RERANK_TOP_K == 5
\* weights in tenths: 0.3 and 0.7
BM25_WEIGHT == 3
SEMANTIC_WEIGHT == 7
RRF_K == 60
FULL_DOC_CHUNK_THRESHOLD == 40
INGEST_BATCH == 512
\* rerank_score given to page-targeted and full-document results (1.0)
FIXED_SCORE == 1
\* top_k default of retrieval_service.retrieve
RETRIEVE_TOP_K == 5
\* backend/rag/chain.py: sessions kept, and turns kept per session
MAX_SESSIONS == 200
MAX_TURNS_PER_SESSION == 50
\* session ids are numbers; the routes' default session id "default" is 0
DefaultSession == 0

\* ------------------------------------------------------------------------
\* Bounds of the model
\* ------------------------------------------------------------------------
\* small documents have 1..SmallDocMax chunks
SmallDocMax == 2
\* large documents have FULL_DOC_CHUNK_THRESHOLD .. FULL_DOC_CHUNK_THRESHOLD + LargeDocExtra chunks
LargeDocExtra == 1
\* chunks per page of a document
ChunksPerPage == 2
\* largest page number a query word can denote
MaxPageNum == 30
\* fusion inputs of the fusion specification: list length and number of texts
MaxListLen == 3
NumTexts == 2
\* requests and uploads/clears of a run on concurrent threads
MaxRequests == 2
MaxMutations == 1
\* widest range of a range query, as the number of pages after the first
MaxRangeWidth == 2

\* fixed-point unit of the fusion scores
RRF_SCALE == 10 ^ 7

\* ------------------------------------------------------------------------
\* Optional values, sequences
\* ------------------------------------------------------------------------
None == <<>>
Some(x) == <<x>>
IsNone(o) == o = <<>>
TheVal(o) == o[1]

Min(a, b) == IF a <= b THEN a ELSE b

Range(s) == {s[i] : i \in 1..Len(s)}

\* s[:n]
Take(s, n) == SubSeq(s, 1, Min(n, Len(s)))

RECURSIVE SeqSum(_)
SeqSum(s) == IF s = <<>> THEN 0 ELSE Head(s) + SeqSum(Tail(s))

\* sorted(set) for a set of integers
RECURSIVE SortedSeq(_)
SortedSeq(S) ==
  IF S = {} THEN <<>>
  ELSE LET m == CHOOSE x \in S : \A y \in S : x <= y
       IN <<m>> \o SortedSeq(S \ {m})

\* Insert index i into a list of indices kept in non-increasing order of
\* keys[.], after every index whose key is at least keys[i]: folding 1..n with
\* it is a stable sort with reverse=True (equal keys keep their order).
RECURSIVE InsertDesc(_, _, _)
InsertDesc(idxs, i, keys) ==
  IF idxs = <<>> THEN <<i>>
  ELSE IF keys[Head(idxs)] >= keys[i] THEN <<Head(idxs)>> \o InsertDesc(Tail(idxs), i, keys)
  ELSE <<i>> \o idxs

RECURSIVE SortDescFrom(_, _, _)
SortDescFrom(acc, i, keys) ==
  IF i > Len(keys) THEN acc ELSE SortDescFrom(InsertDesc(acc, i, keys), i + 1, keys)

\* the positions 1..Len(keys) in non-increasing key order, ties in position order
StableOrderDesc(keys) == SortDescFrom(<<>>, 1, keys)

\* ------------------------------------------------------------------------
\* Text: str.lower() and str.split()
\* ------------------------------------------------------------------------
\* str.lower() of one word
LowerWord(w) ==
  CASE w = "Section" -> "section"
    [] w = "Termination" -> "termination"
    [] w = "Payment" -> "payment"
    [] w = "Confidentiality" -> "confidentiality"
    [] w = "What" -> "what"
    [] w = "Summarize" -> "summarize"
    [] w = "Page" -> "page"
    [] w = "Pages" -> "pages"
    [] w = "PAGE" -> "page"
    [] w = "To" -> "to"
    [] OTHER -> w

\* text.lower().split(): the lower-cased words of a text
Tokenize(text) == [i \in 1..Len(text) |-> LowerWord(text[i])]

\* ------------------------------------------------------------------------
\* Documents supplied by ingestion (extraction and chunking are collaborators)
\* ------------------------------------------------------------------------
DocNames == {"A", "B"}

SmallSizes == 1..SmallDocMax
LargeSizes == FULL_DOC_CHUNK_THRESHOLD..(FULL_DOC_CHUNK_THRESHOLD + LargeDocExtra)

\* an uploaded file: its name and the number of chunks it yields
Uploads ==
  [name : {"A"}, n : SmallSizes \cup LargeSizes] \cup [name : {"B"}, n : {SmallDocMax}]

Passages(d) ==
  IF d = "A"
  THEN << <<"Section", "5", "governs", "termination">>,
          <<"Payment", "due", "in", "30", "days">>,
          <<"Confidentiality", "applies">> >>
  ELSE << <<"Termination", "needs", "notice">>,
          <<"Payment", "by", "invoice">>,
          <<"the", "clause", "on", "liability">> >>

\* text of the i-th chunk (1-based) of document d
ChunkText(d, i) ==
  Passages(d)[((i - 1) % Len(Passages(d))) + 1] \o <<"c" \o ToString(i)>>

\* chunk_pages(extract_pages(file)): {"text", "metadata"} per chunk
chunk_document(up) ==
  [i \in 1..up.n |->
     [text |-> ChunkText(up.name, i),
      metadata |-> [document |-> up.name,
                    page |-> ((i - 1) \div ChunksPerPage) + 1,
                    chunk_index |-> i - 1]]]

\* ------------------------------------------------------------------------
\* Queries
\* ------------------------------------------------------------------------
Queries ==
  { <<"What", "is", "the", "termination", "clause">>,
    <<"Summarize", "payment", "on", "page", "1">>,
    <<"notice", "in", "pages", "20", "to", "21">>,
    <<"is", "payment", "due", "on", "termination", "c4">>,
    <<"notice", "in", "pages", "2", "to", "1">> }

\* the query of the concurrent sparse searches
SearchQueries == {<<"Summarize", "payment", "on", "page", "1">>}

\* int(w) for a word of digits
IsNumber(w) == \E n \in 0..MaxPageNum : ToString(n) = w
ParseInt(w) == CHOOSE n \in 0..MaxPageNum : ToString(n) = w

IsPageWord(w) == LowerWord(w) \in {"page", "pages"}

\* pattern 1: pages? N (to|through|-) M
RangeMatch(q, i) ==
  /\ i + 3 <= Len(q)
  /\ IsPageWord(q[i])
  /\ IsNumber(q[i + 1])
  /\ LowerWord(q[i + 2]) \in {"to", "through", "-"}
  /\ IsNumber(q[i + 3])

\* pattern 2: pages? N , M [, ...]: the numbers of the comma-separated run
RECURSIVE ListRun(_, _)
ListRun(q, j) ==
  IF j + 1 <= Len(q) /\ q[j] = "," /\ IsNumber(q[j + 1])
  THEN {ParseInt(q[j + 1])} \cup ListRun(q, j + 2)
  ELSE {}

ListMatch(q, i) ==
  /\ i + 3 <= Len(q)
  /\ IsPageWord(q[i])
  /\ IsNumber(q[i + 1])
  /\ q[i + 2] = ","
  /\ IsNumber(q[i + 3])

\* pattern 3: pages? [#] N
SingleMatch(q, i) ==
  /\ IsPageWord(q[i])
  /\ \/ i + 1 <= Len(q) /\ IsNumber(q[i + 1])
     \/ i + 2 <= Len(q) /\ q[i + 1] = "#" /\ IsNumber(q[i + 2])

SingleNumber(q, i) ==
  IF IsNumber(q[i + 1]) THEN ParseInt(q[i + 1]) ELSE ParseInt(q[i + 2])

\* pattern 4: pg[.] N
PgMatch(q, i) ==
  /\ i + 1 <= Len(q)
  /\ LowerWord(q[i]) \in {"pg", "pg."}
  /\ IsNumber(q[i + 1])

\* pattern 5: (on|in|at|from) page N
PrepMatch(q, i) ==
  /\ i + 2 <= Len(q)
  /\ LowerWord(q[i]) \in {"on", "in", "at", "from"}
  /\ LowerWord(q[i + 1]) = "page"
  /\ IsNumber(q[i + 2])

\* a page extraction whose ranges leave out their last page
PageSet_exclusive(q) ==
  UNION {
    (IF RangeMatch(q, i) THEN ParseInt(q[i + 1])..(ParseInt(q[i + 3]) - 1) ELSE {})
    \cup (IF ListMatch(q, i) THEN {ParseInt(q[i + 1])} \cup ListRun(q, i + 2) ELSE {})
    \cup (IF SingleMatch(q, i) THEN {SingleNumber(q, i)} ELSE {})
    \cup (IF PgMatch(q, i) THEN {ParseInt(q[i + 1])} ELSE {})
    \cup (IF PrepMatch(q, i) THEN {ParseInt(q[i + 2])} ELSE {})
    : i \in 1..Len(q) }

\* _extract_page_numbers: the union of every pattern's matches, sorted
PageSet(q) ==
  UNION {
    (IF RangeMatch(q, i) THEN ParseInt(q[i + 1])..ParseInt(q[i + 3]) ELSE {})
    \cup (IF ListMatch(q, i) THEN {ParseInt(q[i + 1])} \cup ListRun(q, i + 2) ELSE {})
    \cup (IF SingleMatch(q, i) THEN {SingleNumber(q, i)} ELSE {})
    \cup (IF PgMatch(q, i) THEN {ParseInt(q[i + 1])} ELSE {})
    \cup (IF PrepMatch(q, i) THEN {ParseInt(q[i + 2])} ELSE {})
    : i \in 1..Len(q) }

extract_page_numbers(q) == SortedSeq(PageSet(q))

\* ------------------------------------------------------------------------
\* Collaborator models: embedding distance, BM25 scores, cross-encoder scores
\* ------------------------------------------------------------------------
Overlap(a, b) == Cardinality(Range(a) \cap Range(b))

\* cosine distance between the embeddings of a query and a chunk text
Distance(q, text) ==
  Len(q) + Len(text) - 2 * Overlap(Tokenize(q), Tokenize(text))

\* cross-encoder relevance of the pair (query, text)
CEScore(q, text) == 3 * Overlap(Tokenize(q), Tokenize(text)) - Len(text)

\* BM25Okapi(tokenized): the index is the tokenized corpus it was built from
BM25Okapi(tokenized) == tokenized

TermFreq(w, doc) == Cardinality({j \in 1..Len(doc) : doc[j] = w})
DocFreq(index, w) == Cardinality({i \in 1..Len(index) : w \in Range(index[i])})
Idf(index, w) == Len(index) - DocFreq(index, w) + 1

\* bm25.get_scores(query_tokens): one score per indexed document
get_scores(index, qt) ==
  [i \in 1..Len(index) |->
     SeqSum([j \in 1..Len(qt) |-> TermFreq(qt[j], index[i]) * Idf(index, qt[j])])]

\* ------------------------------------------------------------------------
\* Vector store queries (backend/vectorstore/store.py)
\* ------------------------------------------------------------------------
\* collection.add: stored documents come back as {"chunk", "metadata"}
Stored(chunks) ==
  [i \in 1..Len(chunks) |-> [chunk |-> chunks[i].text, metadata |-> chunks[i].metadata]]

\* collection.query(n_results=k): the k nearest chunks, nearest first
collection_query(coll, q, k) ==
  LET order == StableOrderDesc([i \in 1..Len(coll) |-> 0 - Distance(q, coll[i].chunk)])
  IN [j \in 1..Min(k, Len(coll)) |->
        [chunk |-> coll[order[j]].chunk,
         metadata |-> coll[order[j]].metadata,
         score |-> Distance(q, coll[order[j]].chunk)]]

\* a page fetch that matches the first requested page only
get_chunks_by_pages_first(coll, page_numbers) ==
  IF Len(coll) = 0 THEN <<>>
  ELSE SelectSeq(coll, LAMBDA c : c.metadata.page = page_numbers[1])

\* VectorStore.get_chunks_by_pages
get_chunks_by_pages(coll, page_numbers) ==
  IF Len(coll) = 0 THEN <<>>
  ELSE IF Len(page_numbers) = 1
       THEN SelectSeq(coll, LAMBDA c : c.metadata.page = page_numbers[1])
       ELSE SelectSeq(coll, LAMBDA c : c.metadata.page \in Range(page_numbers))

\* ------------------------------------------------------------------------
\* BM25 search on a given index and chunk list (backend/rag/retriever.py)
\* ------------------------------------------------------------------------
Reverse(s) == [i \in 1..Len(s) |-> s[Len(s) + 1 - i]]

\* argpartition + argsort()[::-1]: the k positions with the largest scores,
\* largest first; among equal scores the higher position first
top_indices(scores, k) ==
  LET n == Len(scores)
      order == StableOrderDesc(Reverse(scores))
  IN [j \in 1..k |-> n + 1 - order[j]]

\* a loop over the top indices that keeps every score
bm25_results_unfiltered(scores, all_chunks, top) ==
  [j \in 1..Len(top) |->
     [chunk |-> all_chunks[top[j]].chunk,
      metadata |-> all_chunks[top[j]].metadata,
      score |-> scores[top[j]],
      source |-> "bm25"]]

\* the loop of _bm25_search over the top indices: positive scores only
bm25_results(scores, all_chunks, top) ==
  LET kept == SelectSeq(top, LAMBDA idx : scores[idx] > 0)
  IN [j \in 1..Len(kept) |->
        [chunk |-> all_chunks[kept[j]].chunk,
         metadata |-> all_chunks[kept[j]].metadata,
         score |-> scores[kept[j]],
         source |-> "bm25"]]

\* all_chunks[idx] raises IndexError for a kept index beyond the chunk list
bm25_raises(scores, all_chunks, top) ==
  \E j \in 1..Len(top) : scores[top[j]] > 0 /\ top[j] > Len(all_chunks)

\* _bm25_search after _get_bm25_index returned (index, all_chunks)
bm25_scan(index, all_chunks, query, top_k) ==
  LET scores == get_scores(index, Tokenize(query))
      k == Min(top_k, Len(scores))
      top == top_indices(scores, k)
  IN IF k = 0 THEN [raised |-> FALSE, hits |-> <<>>]
     ELSE IF bm25_raises(scores, all_chunks, top) THEN [raised |-> TRUE, hits |-> <<>>]
     ELSE [raised |-> FALSE, hits |-> bm25_results(scores, all_chunks, top)]

\* ------------------------------------------------------------------------
\* Reciprocal Rank Fusion (backend/rag/retriever.py)
\* ------------------------------------------------------------------------
\* weight / (k + rank + 1) for a 0-based rank, in fixed point
rrf_term(weight, rank) == (weight * RRF_SCALE) \div (10 * (RRF_K + rank + 1))

FindText(acc, text) == {i \in 1..Len(acc) : acc[i].text = text}

\* a fusion that keeps the first contribution of a text and drops later ones
rrf_add_first(acc, r, term, overwrite) ==
  IF FindText(acc, r.chunk) = {}
  THEN Append(acc, [text |-> r.chunk, score |-> term, entry |-> r])
  ELSE acc

\* a fusion that never merges: every occurrence gets an entry of its own
rrf_add_append(acc, r, term, overwrite) ==
  Append(acc, [text |-> r.chunk, score |-> term, entry |-> r])

\* a fusion that keeps the last contribution of a text instead of the sum
rrf_add_overwrite(acc, r, term, overwrite) ==
  IF FindText(acc, r.chunk) = {}
  THEN Append(acc, [text |-> r.chunk, score |-> term, entry |-> r])
  ELSE LET i == CHOOSE x \in FindText(acc, r.chunk) : TRUE
       IN [acc EXCEPT ![i] = [text |-> r.chunk, score |-> term, entry |-> r]]

\* scores[text] = scores.get(text, 0) + term, and the chunk_map update: the
\* dense loop always stores r, the sparse loop only for a text not yet mapped
rrf_add(acc, r, term, overwrite) ==
  IF FindText(acc, r.chunk) = {}
  THEN Append(acc, [text |-> r.chunk, score |-> term, entry |-> r])
  ELSE LET i == CHOOSE x \in FindText(acc, r.chunk) : TRUE
       IN [acc EXCEPT ![i] = [text |-> r.chunk,
                              score |-> acc[i].score + term,
                              entry |-> IF overwrite THEN r ELSE acc[i].entry]]

RECURSIVE rrf_loop(_, _, _, _, _)
rrf_loop(acc, results, rank, weight, overwrite) ==
  IF rank >= Len(results) THEN acc
  ELSE rrf_loop(rrf_add(acc, results[rank + 1], rrf_term(weight, rank), overwrite),
                results, rank + 1, weight, overwrite)

\* the two dicts (insertion-ordered) after both loops
rrf_scores(semantic_results, bm25_results_) ==
  rrf_loop(rrf_loop(<<>>, semantic_results, 0, SEMANTIC_WEIGHT, TRUE),
           bm25_results_, 0, BM25_WEIGHT, FALSE)

reciprocal_rank_fusion(semantic_results, bm25_results_) ==
  LET acc == rrf_scores(semantic_results, bm25_results_)
      order == StableOrderDesc([i \in 1..Len(acc) |-> acc[i].score])
  IN [j \in 1..Len(acc) |->
        [chunk |-> acc[order[j]].entry.chunk,
         metadata |-> acc[order[j]].entry.metadata,
         score |-> acc[order[j]].entry.score,
         source |-> acc[order[j]].entry.source,
         rrf_score |-> acc[order[j]].score]]

\* ------------------------------------------------------------------------
\* Cross-encoder re-ranking (backend/rag/retriever.py)
\* ------------------------------------------------------------------------
\* a re-ranker that sorts and returns every candidate
rerank_all(query, candidates, top_k) ==
  LET ce == [i \in 1..Len(candidates) |-> CEScore(query, candidates[i].chunk)]
      order == StableOrderDesc(ce)
  IN [j \in 1..Len(candidates) |->
        [chunk |-> candidates[order[j]].chunk,
         metadata |-> candidates[order[j]].metadata,
         score |-> candidates[order[j]].score,
         source |-> candidates[order[j]].source,
         rrf_score |-> candidates[order[j]].rrf_score,
         rerank_score |-> ce[order[j]]]]

\* a re-ranker that attaches the scores and truncates without sorting
rerank_unsorted(query, candidates, top_k) ==
  [j \in 1..Min(top_k, Len(candidates)) |->
     [chunk |-> candidates[j].chunk,
      metadata |-> candidates[j].metadata,
      score |-> candidates[j].score,
      source |-> candidates[j].source,
      rrf_score |-> candidates[j].rrf_score,
      rerank_score |-> CEScore(query, candidates[j].chunk)]]

rerank(query, candidates, top_k) ==
  IF candidates = <<>> THEN <<>>
  ELSE LET ce == [i \in 1..Len(candidates) |-> CEScore(query, candidates[i].chunk)]
           order == StableOrderDesc(ce)
       IN [j \in 1..Min(top_k, Len(candidates)) |->
             [chunk |-> candidates[order[j]].chunk,
              metadata |-> candidates[order[j]].metadata,
              score |-> candidates[order[j]].score,
              source |-> candidates[order[j]].source,
              rrf_score |-> candidates[order[j]].rrf_score,
              rerank_score |-> ce[order[j]]]]

\* the result entries of the page-targeted and full-document modes
fixed_results(data) ==
  [i \in 1..Len(data) |->
     [chunk |-> data[i].chunk, metadata |-> data[i].metadata, rerank_score |-> FIXED_SCORE]]

\* ------------------------------------------------------------------------
\* State
\* ------------------------------------------------------------------------
VARIABLES
  collection,             \* the chunks of the ChromaDB collection, in insertion order
  all_chunks_cache,       \* VectorStore._all_chunks_cache: None or the cached list
  all_chunks_cache_size,  \* VectorStore._all_chunks_cache_size
  bm25_cache_size,        \* _bm25_cache_size
  bm25_index,             \* _bm25_index: None or the index
  bm25_chunks,            \* _bm25_chunks
  req,                    \* request threads: position and local variables
  ing,                    \* upload and clear threads: position and local variables
  embed_queue,            \* work queue of the single-thread embed pool
  worker,                 \* the embed pool's worker thread
  sched,                  \* "serial", "sequence", "threads" or "uploads": the schedule
  budget,                 \* requests and uploads/clears still to come ("threads")
  embed_model,            \* embedder._model: 0 for None, else the number of the instance
  cross_encoder,          \* retriever._cross_encoder: 0 for None, else the number of the instance
  sessions                \* chain._sessions: the sessions, in the dict's insertion order

vars == <<collection, all_chunks_cache, all_chunks_cache_size, bm25_cache_size,
          bm25_index, bm25_chunks, req, ing, embed_queue, worker, sched, budget,
          embed_model, cross_encoder, sessions>>

storeVars == <<collection, all_chunks_cache, all_chunks_cache_size>>
bm25Vars == <<bm25_cache_size, bm25_index, bm25_chunks>>
ingVars == <<ing, embed_queue, worker>>
envVars == <<sched, budget>>
procVars == <<embed_model, cross_encoder, sessions>>

\* the pool of request threads, in the order the pool hands them out
ThreadOrder == <<"r1", "r2">>
ReqThreads == Range(ThreadOrder)
\* the thread that serves the requests when they come one at a time
SerialThread == ThreadOrder[1]
\* a new request goes to the first free thread of the pool
FirstFree(t) ==
  \E i \in 1..Len(ThreadOrder) :
    /\ ThreadOrder[i] = t
    /\ \A j \in 1..(i - 1) : req[ThreadOrder[j]].pc # "idle"
\* uploads run on executor threads: one at a time, or two under the "uploads"
\* schedule
IngThreads == IF sched = "uploads" THEN {"u1", "u2"} ELSE {"u1"}

\* the retrieval entry points
Ops == {"query_rag", "hybrid_retrieve", "retrieve", "search", "bm25_search"}
\* the sparse search, and a direct reader of get_all_chunks (document analysis)
SearchOps == {"bm25_search", "get_all_chunks"}

\* VectorStore.size
size == Len(collection)

IdleReq ==
  [pc |-> "idle", op |-> "", query |-> <<>>, top_k |-> 0, ret |-> "",
   count |-> 0, result |-> <<>>, current_size |-> 0, all_chunks |-> None,
   bm25 |-> None, chunks |-> <<>>, semantic_hits |-> <<>>, bm25_hits |-> <<>>,
   fused |-> <<>>, results |-> <<>>, mode |-> "", stages |-> {}, raised |-> FALSE,
   pre |-> <<>>, dirty |-> FALSE, session |-> DefaultSession, rid |-> 0]

\* a request ends: its result, and the locals that no longer matter dropped
Done(r, mode, res) ==
  [r EXCEPT !.pc = "done", !.mode = mode, !.results = res, !.ret = "",
            !.count = 0, !.result = <<>>, !.current_size = 0, !.all_chunks = None,
            !.semantic_hits = <<>>, !.bm25_hits = <<>>, !.fused = <<>>]

\* a request ends in an exception
Raise(r) == [Done(r, r.mode, <<>>) EXCEPT !.raised = TRUE]

Stage(r, st) == [r EXCEPT !.stages = r.stages \cup st]

\* hybrid_retrieve returned res to its caller
AfterHybrid(r, res) ==
  IF r.op = "retrieve" THEN Done(r, "hybrid", Take(res, RETRIEVE_TOP_K))
  ELSE Done(r, "hybrid", res)

\* _bm25_search returned hits (or raised) to its caller
AfterBm25(r, scan) ==
  IF scan.raised THEN Raise(r)
  ELSE IF r.op = "bm25_search" THEN Done(r, "bm25", scan.hits)
  ELSE [r EXCEPT !.pc = "hr_fuse", !.bm25_hits = scan.hits]

NoHits == [raised |-> FALSE, hits |-> <<>>]

\* VectorStore.search returned hits to its caller
AfterSearch(r, hits) ==
  IF r.op = "search" THEN Done(r, "dense", hits)
  ELSE [r EXCEPT !.pc = "bm_size",
                 !.semantic_hits =
                    [i \in 1..Len(hits) |->
                       [chunk |-> hits[i].chunk, metadata |-> hits[i].metadata,
                        score |-> hits[i].score, source |-> "semantic"]]]

\* get_all_chunks returned val (None or a list) to its caller
AfterGetAll(r, val) ==
  IF r.op = "get_all_chunks"
  THEN Done(r, "all", IF IsNone(val) THEN <<>> ELSE TheVal(val))
  ELSE IF r.ret = "qr"
  THEN IF IsNone(val) THEN Raise(r)
       ELSE Done(r, "full", fixed_results(TheVal(val)))
  ELSE IF IsNone(val) \/ TheVal(val) = <<>> THEN AfterBm25(r, NoHits)
       ELSE [r EXCEPT !.pc = "bm_set_index", !.all_chunks = val]

\* ------------------------------------------------------------------------
\* Decisions of the code, one operator each
\* ------------------------------------------------------------------------
\* a threshold test that excludes the threshold itself
full_document_mode_strict(total_chunks) == total_chunks < FULL_DOC_CHUNK_THRESHOLD

\* chain.py: elif total_chunks <= _FULL_DOC_CHUNK_THRESHOLD
full_document_mode(total_chunks) == total_chunks <= FULL_DOC_CHUNK_THRESHOLD

\* a page miss that ends the request with no results
qr_page_miss_empty(r) == Done(r, "page", <<>>)

\* chain.py: page_data is empty: fall through to hybrid retrieval
qr_page_miss(r) == [r EXCEPT !.pc = "hr_size"]

\* a dense search without the empty-store return
search_store_empty_never(count) == FALSE

\* store.py search: if count == 0: return []
search_store_empty(count) == count = 0

\* an index built once and never again
needs_rebuild_first_only(current_size, cache_size) == cache_size = -1

\* an index rebuilt by every search
needs_rebuild_always(current_size, cache_size) == TRUE

\* retriever.py _get_bm25_index: if current_size != _bm25_cache_size
needs_rebuild(current_size, cache_size) == current_size # cache_size

\* retriever.py _get_bm25_index: tokenized = [doc.lower().split() ...]
tokenized(all_chunks) == [i \in 1..Len(all_chunks) |-> Tokenize(all_chunks[i].chunk)]

\* ------------------------------------------------------------------------
\* Conversation memory (backend/rag/chain.py)
\* ------------------------------------------------------------------------
HasSession(sess, sid) == \E i \in 1..Len(sess) : sess[i].id = sid

\* _sessions[session_id] of the defaultdict: a missing key is inserted, last
\* in the dict's order, with an empty list
session_lookup(sess, sid) ==
  IF HasSession(sess, sid) THEN sess ELSE Append(sess, [id |-> sid, turns |-> <<>>])

\* _get_history: _sessions[session_id][-(MAX_HISTORY_TURNS * 2):]
get_history(sess, sid) == session_lookup(sess, sid)

\* _evict_sessions_if_needed: while len(_sessions) > _MAX_SESSIONS, delete the
\* first key of the dict
evict_sessions_if_needed(sess) ==
  IF Len(sess) > MAX_SESSIONS THEN SubSeq(sess, Len(sess) - MAX_SESSIONS + 1, Len(sess))
  ELSE sess

\* _add_turn
add_turn(sess, sid, turn) ==
  LET found == session_lookup(sess, sid)
      appended == [i \in 1..Len(found) |->
                     IF found[i].id = sid
                     THEN [found[i] EXCEPT !.turns = Append(found[i].turns, turn)]
                     ELSE found[i]]
      trimmed == [i \in 1..Len(appended) |->
                    IF appended[i].id = sid /\ Len(appended[i].turns) > MAX_TURNS_PER_SESSION
                    THEN [appended[i] EXCEPT
                            !.turns = SubSeq(appended[i].turns,
                                             Len(appended[i].turns) - MAX_TURNS_PER_SESSION + 1,
                                             Len(appended[i].turns))]
                    ELSE appended[i]]
  IN evict_sessions_if_needed(trimmed)

\* clear_session: _sessions.pop(session_id, None)
clear_session(sess, sid) == SelectSeq(sess, LAMBDA e : e.id # sid)

\* clear_all_sessions: _sessions.clear()
clear_all_sessions(sess) == <<>>

\* ------------------------------------------------------------------------
\* Scheduling
\* ------------------------------------------------------------------------
BusyReq(t) == req[t].pc # "idle"
BusyIng(u) == ing[u].pc # "idle"
PoolBusy == embed_queue # <<>> \/ worker.pc # "idle"

\* a request that has started and not yet returned
InFlight(t) == req[t].pc \notin {"idle", "done"}

\* Each request and each upload runs on its own thread.  Under the "serial"
\* schedule one request or upload runs at a time, from start to end; under
\* the "sequence" schedule too, but a caller may keep its answer while the
\* next request or upload runs; under the "threads" schedule their steps
\* interleave freely.
MayRunReq(t) ==
  /\ sched = "serial" =>
       /\ t = SerialThread
       /\ \A t2 \in ReqThreads \ {t} : ~BusyReq(t2)
       /\ \A u \in IngThreads : ~BusyIng(u)
       /\ ~PoolBusy
  /\ sched = "sequence" =>
       /\ \A t2 \in ReqThreads \ {t} : ~InFlight(t2)
       /\ \A u \in IngThreads : ~BusyIng(u)
       /\ ~PoolBusy

MayRunIng(u) ==
  /\ sched = "serial" =>
       /\ \A t \in ReqThreads : ~BusyReq(t)
       /\ \A u2 \in IngThreads \ {u} : ~BusyIng(u2)
  /\ sched = "sequence" =>
       /\ \A t \in ReqThreads : ~InFlight(t)
       /\ \A u2 \in IngThreads \ {u} : ~BusyIng(u2)

\* an upload or clear that begins is noted in every request in flight or
\* finished; a request that starts while one is in progress notes it itself
Dirtied == [t \in ReqThreads |->
              IF req[t].pc = "idle" THEN req[t] ELSE [req[t] EXCEPT !.dirty = TRUE]]

EntryPc(op) ==
  CASE op = "query_rag" -> "qr_size"
    [] op = "hybrid_retrieve" -> "hr_size"
    [] op = "retrieve" -> "rs_size"
    [] op = "search" -> "vs_count"
    [] op = "bm25_search" -> "bm_size"
    [] op = "get_all_chunks" -> "gac_count"

\* ------------------------------------------------------------------------
\* Request threads
\* ------------------------------------------------------------------------
\* a caller invokes an entry point with a query
Start(t, op, q) ==
  /\ req[t].pc = "idle"
  /\ FirstFree(t)
  /\ MayRunReq(t)
  /\ req' = [req EXCEPT ![t] =
               [IdleReq EXCEPT !.pc = EntryPc(op), !.op = op, !.query = q,
                               !.top_k = RETRIEVAL_TOP_K,
                               !.pre = [size |-> size,
                                        cache_size |-> bm25_cache_size,
                                        index |-> bm25_index,
                                        chunks |-> bm25_chunks],
                               !.dirty = (\E u \in IngThreads : BusyIng(u)) \/ PoolBusy]]
  /\ budget.req > 0
  /\ budget' = IF sched = "serial" THEN budget ELSE [budget EXCEPT !.req = @ - 1]
  /\ UNCHANGED <<storeVars, bm25Vars, ingVars, sched, procVars>>

\* query_rag: if vector_store.size == 0
QrSize(t) ==
  /\ req[t].pc = "qr_size"
  /\ MayRunReq(t)
  /\ req' = [req EXCEPT ![t] =
               IF size = 0 THEN Done(req[t], "empty", <<>>) ELSE [req[t] EXCEPT !.pc = "qr_total"]]
  /\ UNCHANGED <<storeVars, bm25Vars, ingVars, envVars, procVars>>

\* query_rag: requested_pages, total_chunks and the choice of the mode
QrTotal(t) ==
  /\ req[t].pc = "qr_total"
  /\ MayRunReq(t)
  /\ req' = [req EXCEPT ![t] =
               IF extract_page_numbers(req[t].query) # <<>> THEN [req[t] EXCEPT !.pc = "qr_pages"]
               ELSE IF full_document_mode(size) THEN [req[t] EXCEPT !.pc = "gac_count", !.ret = "qr"]
               ELSE [req[t] EXCEPT !.pc = "hr_size"]]
  /\ UNCHANGED <<storeVars, bm25Vars, ingVars, envVars, procVars>>

\* query_rag: page-targeted retrieval
QrPages(t) ==
  /\ req[t].pc = "qr_pages"
  /\ MayRunReq(t)
  /\ LET page_data == get_chunks_by_pages(collection, extract_page_numbers(req[t].query))
     IN req' = [req EXCEPT ![t] =
                  IF page_data # <<>>
                  THEN Done(Stage(req[t], {"page_fetch"}), "page", fixed_results(page_data))
                  ELSE qr_page_miss(Stage(req[t], {"page_fetch"}))]
  /\ UNCHANGED <<storeVars, bm25Vars, ingVars, envVars, procVars>>

\* retrieval_service.retrieve: if vector_store.size == 0
RsSize(t) ==
  /\ req[t].pc = "rs_size"
  /\ MayRunReq(t)
  /\ req' = [req EXCEPT ![t] =
               IF size = 0 THEN Done(req[t], "empty", <<>>) ELSE [req[t] EXCEPT !.pc = "hr_size"]]
  /\ UNCHANGED <<storeVars, bm25Vars, ingVars, envVars, procVars>>

\* hybrid_retrieve: if vector_store.size == 0
HrSize(t) ==
  /\ req[t].pc = "hr_size"
  /\ MayRunReq(t)
  /\ req' = [req EXCEPT ![t] =
               IF size = 0 THEN AfterHybrid(req[t], <<>>) ELSE [req[t] EXCEPT !.pc = "hr_k"]]
  /\ UNCHANGED <<storeVars, bm25Vars, ingVars, envVars, procVars>>

\* hybrid_retrieve with first_pass_k one above RETRIEVAL_TOP_K
HrK_one_more(t) ==
  /\ req[t].pc = "hr_k"
  /\ MayRunReq(t)
  /\ req' = [req EXCEPT ![t] =
               [req[t] EXCEPT !.pc = "vs_count", !.top_k = Min(RETRIEVAL_TOP_K + 1, size)]]
  /\ UNCHANGED <<storeVars, bm25Vars, ingVars, envVars, procVars>>

\* hybrid_retrieve: first_pass_k = min(RETRIEVAL_TOP_K, vector_store.size)
HrK(t) ==
  /\ req[t].pc = "hr_k"
  /\ MayRunReq(t)
  /\ req' = [req EXCEPT ![t] =
               [req[t] EXCEPT !.pc = "vs_count", !.top_k = Min(RETRIEVAL_TOP_K, size)]]
  /\ UNCHANGED <<storeVars, bm25Vars, ingVars, envVars, procVars>>

\* VectorStore.search: count = self._collection.count()
VsCount(t) ==
  /\ req[t].pc = "vs_count"
  /\ MayRunReq(t)
  /\ req' = [req EXCEPT ![t] =
               IF search_store_empty(Len(collection)) THEN AfterSearch(req[t], <<>>)
               ELSE [req[t] EXCEPT !.pc = "gm_check", !.count = Len(collection)]]
  /\ UNCHANGED <<storeVars, bm25Vars, ingVars, envVars, procVars>>

\* embed_query, _get_model: if _model is None
GmCheck(t) ==
  /\ req[t].pc = "gm_check"
  /\ MayRunReq(t)
  /\ req' = [req EXCEPT ![t] =
               [req[t] EXCEPT !.pc = IF embed_model = 0 THEN "gm_load" ELSE "vs_query"]]
  /\ UNCHANGED <<storeVars, bm25Vars, ingVars, envVars, procVars>>

\* _get_model: _model = SentenceTransformer(...), a new instance
GmLoad(t) ==
  /\ req[t].pc = "gm_load"
  /\ MayRunReq(t)
  /\ embed_model' = embed_model + 1
  /\ req' = [req EXCEPT ![t] = [req[t] EXCEPT !.pc = "vs_query"]]
  /\ UNCHANGED <<storeVars, bm25Vars, ingVars, envVars, cross_encoder, sessions>>

\* VectorStore.search: embed the query and ask the collection for the k nearest
VsQuery(t) ==
  /\ req[t].pc = "vs_query"
  /\ MayRunReq(t)
  /\ LET r == req[t]
         k == Min(IF r.top_k = 0 THEN RETRIEVAL_TOP_K ELSE r.top_k, r.count)
     IN req' = [req EXCEPT ![t] =
                  AfterSearch(Stage(req[t], {"embed", "dense"}),
                              collection_query(collection, r.query, k))]
  /\ UNCHANGED <<storeVars, bm25Vars, ingVars, envVars, procVars>>

\* _get_bm25_index: current_size = vector_store.size
BmSize(t) ==
  /\ req[t].pc = "bm_size"
  /\ MayRunReq(t)
  /\ req' = [req EXCEPT ![t] =
               IF size = 0 THEN AfterBm25(req[t], NoHits)
               ELSE [req[t] EXCEPT !.pc = "bm_check", !.current_size = size]]
  /\ UNCHANGED <<storeVars, bm25Vars, ingVars, envVars, procVars>>

\* _get_bm25_index: if current_size != _bm25_cache_size
BmCheck(t) ==
  /\ req[t].pc = "bm_check"
  /\ MayRunReq(t)
  /\ req' = [req EXCEPT ![t] =
               IF needs_rebuild(req[t].current_size, bm25_cache_size)
               THEN [req[t] EXCEPT !.pc = "gac_count", !.ret = "bm"]
               ELSE [req[t] EXCEPT !.pc = "bm_ret_index"]]
  /\ UNCHANGED <<storeVars, bm25Vars, ingVars, envVars, procVars>>

\* get_all_chunks: count = self._collection.count(); if count == 0: return []
GacCount(t) ==
  /\ req[t].pc = "gac_count"
  /\ MayRunReq(t)
  /\ req' = [req EXCEPT ![t] =
               IF Len(collection) = 0 THEN AfterGetAll(req[t], Some(<<>>))
               ELSE [req[t] EXCEPT !.pc = "gac_check", !.count = Len(collection)]]
  /\ UNCHANGED <<storeVars, bm25Vars, ingVars, envVars, procVars>>

\* get_all_chunks: is the cached list usable
GacCheck(t) ==
  /\ req[t].pc = "gac_check"
  /\ MayRunReq(t)
  /\ req' = [req EXCEPT ![t] =
               IF ~IsNone(all_chunks_cache) /\ all_chunks_cache_size = req[t].count
               THEN [req[t] EXCEPT !.pc = "gac_ret"]
               ELSE [req[t] EXCEPT !.pc = "gac_get"]]
  /\ UNCHANGED <<storeVars, bm25Vars, ingVars, envVars, procVars>>

\* get_all_chunks: result = self._collection.get(...)
GacGet(t) ==
  /\ req[t].pc = "gac_get"
  /\ MayRunReq(t)
  /\ req' = [req EXCEPT ![t] =
               [Stage(req[t], {"get_all_chunks"}) EXCEPT !.pc = "gac_set_cache",
                                                    !.result = collection]]
  /\ UNCHANGED <<storeVars, bm25Vars, ingVars, envVars, procVars>>

\* get_all_chunks: self._all_chunks_cache = [...]
GacSetCache(t) ==
  /\ req[t].pc = "gac_set_cache"
  /\ MayRunReq(t)
  /\ all_chunks_cache' = Some(req[t].result)
  /\ req' = [req EXCEPT ![t] = [req[t] EXCEPT !.pc = "gac_set_size", !.result = <<>>]]
  /\ UNCHANGED <<collection, all_chunks_cache_size, bm25Vars, ingVars, envVars, procVars>>

\* get_all_chunks: self._all_chunks_cache_size = count
GacSetSize(t) ==
  /\ req[t].pc = "gac_set_size"
  /\ MayRunReq(t)
  /\ all_chunks_cache_size' = req[t].count
  /\ req' = [req EXCEPT ![t] = [req[t] EXCEPT !.pc = "gac_ret"]]
  /\ UNCHANGED <<collection, all_chunks_cache, bm25Vars, ingVars, envVars, procVars>>

\* get_all_chunks: return self._all_chunks_cache
GacRet(t) ==
  /\ req[t].pc = "gac_ret"
  /\ MayRunReq(t)
  /\ req' = [req EXCEPT ![t] = AfterGetAll(req[t], all_chunks_cache)]
  /\ UNCHANGED <<storeVars, bm25Vars, ingVars, envVars, procVars>>

\* _get_bm25_index: _bm25_index = BM25Okapi(tokenized)
BmSetIndex(t) ==
  /\ req[t].pc = "bm_set_index"
  /\ MayRunReq(t)
  /\ bm25_index' = Some(BM25Okapi(tokenized(TheVal(req[t].all_chunks))))
  /\ req' = [req EXCEPT ![t] = [Stage(req[t], {"rebuild"}) EXCEPT !.pc = "bm_set_chunks"]]
  /\ UNCHANGED <<storeVars, bm25_cache_size, bm25_chunks, ingVars, envVars, procVars>>

\* _get_bm25_index: _bm25_chunks = all_chunks
BmSetChunks(t) ==
  /\ req[t].pc = "bm_set_chunks"
  /\ MayRunReq(t)
  /\ bm25_chunks' = TheVal(req[t].all_chunks)
  /\ req' = [req EXCEPT ![t] = [req[t] EXCEPT !.pc = "bm_set_size", !.all_chunks = None]]
  /\ UNCHANGED <<storeVars, bm25_cache_size, bm25_index, ingVars, envVars, procVars>>

\* a rebuild whose own search returns no hits
BmSetSize_no_hits(t) ==
  /\ req[t].pc = "bm_set_size"
  /\ MayRunReq(t)
  /\ bm25_cache_size' = req[t].current_size
  /\ req' = [req EXCEPT ![t] = AfterBm25(req[t], NoHits)]
  /\ UNCHANGED <<storeVars, bm25_index, bm25_chunks, ingVars, envVars, procVars>>

\* _get_bm25_index: _bm25_cache_size = current_size
BmSetSize(t) ==
  /\ req[t].pc = "bm_set_size"
  /\ MayRunReq(t)
  /\ bm25_cache_size' = req[t].current_size
  /\ req' = [req EXCEPT ![t] = [req[t] EXCEPT !.pc = "bm_ret_index"]]
  /\ UNCHANGED <<storeVars, bm25_index, bm25_chunks, ingVars, envVars, procVars>>

\* _get_bm25_index: return _bm25_index, ... (the first global is read)
BmRetIndex(t) ==
  /\ req[t].pc = "bm_ret_index"
  /\ MayRunReq(t)
  /\ req' = [req EXCEPT ![t] = [req[t] EXCEPT !.pc = "bm_ret_chunks", !.bm25 = bm25_index]]
  /\ UNCHANGED <<storeVars, bm25Vars, ingVars, envVars, procVars>>

\* _get_bm25_index: return ..., _bm25_chunks (the second global is read), and
\* the rest of _bm25_search on the pair returned
BmRetChunks(t) ==
  /\ req[t].pc = "bm_ret_chunks"
  /\ MayRunReq(t)
  /\ req' = [req EXCEPT ![t] =
               IF IsNone(req[t].bm25) THEN AfterBm25(req[t], NoHits)
               ELSE AfterBm25([Stage(req[t], {"bm25"}) EXCEPT !.chunks = bm25_chunks],
                              bm25_scan(TheVal(req[t].bm25), bm25_chunks, req[t].query, req[t].top_k))]
  /\ UNCHANGED <<storeVars, bm25Vars, ingVars, envVars, procVars>>

\* hybrid_retrieve: fused = _reciprocal_rank_fusion(semantic_hits, bm25_hits)
HrFuse(t) ==
  /\ req[t].pc = "hr_fuse"
  /\ MayRunReq(t)
  /\ req' = [req EXCEPT ![t] =
               [Stage(req[t], {"fusion"}) EXCEPT
                  !.pc = "ce_check",
                  !.fused = reciprocal_rank_fusion(req[t].semantic_hits, req[t].bm25_hits)]]
  /\ UNCHANGED <<storeVars, bm25Vars, ingVars, envVars, procVars>>

\* _rerank: if not candidates; _get_cross_encoder: if _cross_encoder is None
CeCheck(t) ==
  /\ req[t].pc = "ce_check"
  /\ MayRunReq(t)
  /\ req' = [req EXCEPT ![t] =
               [req[t] EXCEPT !.pc = IF req[t].fused # <<>> /\ cross_encoder = 0
                                     THEN "ce_load" ELSE "hr_rerank"]]
  /\ UNCHANGED <<storeVars, bm25Vars, ingVars, envVars, procVars>>

\* _get_cross_encoder: _cross_encoder = CrossEncoder(...), a new instance
CeLoad(t) ==
  /\ req[t].pc = "ce_load"
  /\ MayRunReq(t)
  /\ cross_encoder' = cross_encoder + 1
  /\ req' = [req EXCEPT ![t] = [req[t] EXCEPT !.pc = "hr_rerank"]]
  /\ UNCHANGED <<storeVars, bm25Vars, ingVars, envVars, embed_model, sessions>>

\* hybrid_retrieve: reranked = _rerank(query, fused[:rerank_candidates], RERANK_TOP_K)
HrRerank(t) ==
  /\ req[t].pc = "hr_rerank"
  /\ MayRunReq(t)
  /\ LET r == req[t]
         candidates == Take(r.fused, Min(RETRIEVAL_TOP_K * 2, Len(r.fused)))
     IN req' = [req EXCEPT ![t] =
                  AfterHybrid(IF candidates = <<>> THEN req[t] ELSE Stage(req[t], {"cross_encoder"}),
                              rerank(r.query, candidates, RERANK_TOP_K))]
  /\ UNCHANGED <<storeVars, bm25Vars, ingVars, envVars, procVars>>

\* the caller has its answer; the thread is free for the next request
Finish(t) ==
  /\ req[t].pc = "done"
  /\ MayRunReq(t)
  /\ req' = [req EXCEPT ![t] = IdleReq]
  /\ UNCHANGED <<storeVars, bm25Vars, ingVars, envVars, procVars>>

\* ------------------------------------------------------------------------
\* Upload and clear threads, and the embed pool
\* ------------------------------------------------------------------------
IdleIng == [pc |-> "idle", op |-> "", chunks |-> <<>>, next |-> 0]
IdleWorker == [pc |-> "idle", owner |-> "", batch |-> <<>>]

\* the documents a client uploads: large ones only one request at a time
UploadChoices ==
  IF sched = "serial" THEN Uploads ELSE {up \in Uploads : up.n <= SmallDocMax}

\* POST /upload: ingest_document runs on an executor thread
StartIngest(u, up) ==
  /\ ing[u].pc = "idle"
  /\ MayRunIng(u)
  /\ ~PoolBusy
  /\ ing' = [ing EXCEPT ![u] =
               [IdleIng EXCEPT !.pc = "in_size", !.op = "ingest",
                               !.chunks = chunk_document(up)]]
  /\ budget.mut > 0
  /\ budget' = IF sched = "serial" THEN budget ELSE [budget EXCEPT !.mut = @ - 1]
  /\ req' = Dirtied
  /\ UNCHANGED <<storeVars, bm25Vars, embed_queue, worker, sched, procVars>>

\* POST /clear
StartClear(u) ==
  /\ ing[u].pc = "idle"
  /\ MayRunIng(u)
  /\ ing' = [ing EXCEPT ![u] = [IdleIng EXCEPT !.pc = "cl_coll", !.op = "clear"]]
  /\ budget.mut > 0
  /\ budget' = IF sched = "serial" THEN budget ELSE [budget EXCEPT !.mut = @ - 1]
  /\ req' = Dirtied
  /\ UNCHANGED <<storeVars, bm25Vars, embed_queue, worker, sched, procVars>>

\* ingest_document: old_count = vector_store.size; if old_count > 0: clear
InSize(u) ==
  /\ ing[u].pc = "in_size"
  /\ ing' = [ing EXCEPT ![u] =
               [@ EXCEPT !.pc = IF size > 0 THEN "cl_coll" ELSE "in_submit"]]
  /\ UNCHANGED <<storeVars, bm25Vars, req, embed_queue, worker, envVars, procVars>>

\* VectorStore.clear: delete and recreate the collection
ClColl(u) ==
  /\ ing[u].pc = "cl_coll"
  /\ collection' = <<>>
  /\ ing' = [ing EXCEPT ![u] = [@ EXCEPT !.pc = "cl_cache"]]
  /\ UNCHANGED <<all_chunks_cache, all_chunks_cache_size, bm25Vars, req, embed_queue,
                 worker, envVars, procVars>>

\* VectorStore.clear: self._all_chunks_cache = None
ClCache(u) ==
  /\ ing[u].pc = "cl_cache"
  /\ all_chunks_cache' = None
  /\ ing' = [ing EXCEPT ![u] = [@ EXCEPT !.pc = "cl_size"]]
  /\ UNCHANGED <<collection, all_chunks_cache_size, bm25Vars, req, embed_queue,
                 worker, envVars, procVars>>

\* VectorStore.clear: self._all_chunks_cache_size = -1; then the caller's
\* next statement: clear_all_sessions() in ingest_document, and
\* clear_session("default") in the /clear route
ClSize(u) ==
  /\ ing[u].pc = "cl_size"
  /\ all_chunks_cache_size' = -1
  /\ sessions' = IF ing[u].op = "clear" THEN clear_session(sessions, DefaultSession)
                 ELSE clear_all_sessions(sessions)
  /\ ing' = [ing EXCEPT ![u] =
               IF @.op = "clear" THEN IdleIng ELSE [@ EXCEPT !.pc = "in_submit"]]
  /\ UNCHANGED <<collection, all_chunks_cache, bm25Vars, req, embed_queue, worker,
                 envVars, embed_model, cross_encoder>>

\* ingest_document: _embed_pool.submit(_embed_and_store_batch, batch), per batch
InSubmit(u) ==
  /\ ing[u].pc = "in_submit"
  /\ LET r == ing[u]
         last == Min(r.next + INGEST_BATCH, Len(r.chunks))
     IN /\ embed_queue' = Append(embed_queue,
                                 [owner |-> u, batch |-> SubSeq(r.chunks, r.next + 1, last)])
        /\ ing' = [ing EXCEPT ![u] =
                     [@ EXCEPT !.next = last,
                               !.pc = IF last >= Len(r.chunks) THEN "in_wait"
                                      ELSE "in_submit"]]
  /\ UNCHANGED <<storeVars, bm25Vars, req, worker, envVars, procVars>>

\* ingest_document: fut.result() for every batch, then return
InWait(u) ==
  /\ ing[u].pc = "in_wait"
  /\ \A i \in 1..Len(embed_queue) : embed_queue[i].owner # u
  /\ ~(worker.pc # "idle" /\ worker.owner = u)
  /\ ing' = [ing EXCEPT ![u] = IdleIng]
  /\ UNCHANGED <<storeVars, bm25Vars, req, embed_queue, worker, envVars, procVars>>

\* the embed pool's thread takes the next batch: add_chunks(batch)
WTake ==
  /\ worker.pc = "idle"
  /\ embed_queue # <<>>
  /\ worker' = [pc |-> "add_coll", owner |-> Head(embed_queue).owner,
                batch |-> Head(embed_queue).batch]
  /\ embed_queue' = Tail(embed_queue)
  /\ UNCHANGED <<storeVars, bm25Vars, req, ing, envVars, procVars>>

\* add_chunks: embed_texts_np(texts), which loads the embedding model when it
\* is not loaded (the embed pool's thread is never scheduled against a dense
\* search), then self._collection.add(...)
WAddColl ==
  /\ worker.pc = "add_coll"
  /\ embed_model' = IF embed_model = 0 THEN 1 ELSE embed_model
  /\ collection' = collection \o Stored(worker.batch)
  /\ worker' = [worker EXCEPT !.pc = "add_cache", !.batch = <<>>]
  /\ UNCHANGED <<all_chunks_cache, all_chunks_cache_size, bm25Vars, req, ing,
                 embed_queue, envVars, cross_encoder, sessions>>

\* add_chunks: self._all_chunks_cache = None
WAddCache ==
  /\ worker.pc = "add_cache"
  /\ all_chunks_cache' = None
  /\ worker' = [worker EXCEPT !.pc = "add_size"]
  /\ UNCHANGED <<collection, all_chunks_cache_size, bm25Vars, req, ing, embed_queue,
                 envVars, procVars>>

\* add_chunks: self._all_chunks_cache_size = -1; return total
WAddSize ==
  /\ worker.pc = "add_size"
  /\ all_chunks_cache_size' = -1
  /\ worker' = IdleWorker
  /\ UNCHANGED <<collection, all_chunks_cache, bm25Vars, req, ing, embed_queue, envVars, procVars>>

\* ------------------------------------------------------------------------
\* Specifications
\* ------------------------------------------------------------------------
\* The collection is persistent: a process starts with the chunks a previous
\* run left in it, and with its caches unset.
InitState ==
  /\ \/ collection = <<>>
     \/ \E up \in UploadChoices : collection = Stored(chunk_document(up))
  /\ all_chunks_cache = None
  /\ all_chunks_cache_size = -1
  /\ bm25_cache_size = -1
  /\ bm25_index = None
  /\ bm25_chunks = <<>>
  /\ req = [t \in ReqThreads |-> IdleReq]
  /\ ing = [u \in IngThreads |-> IdleIng]
  /\ embed_queue = <<>>
  /\ worker = IdleWorker
  /\ embed_model = 0
  /\ cross_encoder = 0
  /\ sessions = <<>>

Init ==
  /\ sched = "serial"
  /\ budget = [req |-> 1, mut |-> 1]
  /\ InitState
InitThreads ==
  /\ sched = "threads"
  /\ budget = [req |-> MaxRequests, mut |-> MaxMutations]
  /\ InitState

Mutate ==
  \/ \E u \in IngThreads :
       \/ \E up \in UploadChoices : StartIngest(u, up)
       \/ StartClear(u)
       \/ InSize(u) \/ ClColl(u) \/ ClCache(u) \/ ClSize(u)
       \/ InSubmit(u) \/ InWait(u)
  \/ WTake \/ WAddColl \/ WAddCache \/ WAddSize

Next ==
  \/ \E t \in ReqThreads :
       \/ \E op \in Ops, q \in Queries : Start(t, op, q)
       \/ QrSize(t) \/ QrTotal(t) \/ QrPages(t) \/ RsSize(t)
       \/ HrSize(t) \/ HrK(t) \/ VsCount(t) \/ GmCheck(t) \/ GmLoad(t) \/ VsQuery(t)
       \/ BmSize(t) \/ BmCheck(t)
       \/ GacCount(t) \/ GacCheck(t) \/ GacGet(t) \/ GacSetCache(t)
       \/ GacSetSize(t) \/ GacRet(t)
       \/ BmSetIndex(t) \/ BmSetChunks(t) \/ BmSetSize(t)
       \/ BmRetIndex(t) \/ BmRetChunks(t)
       \/ HrFuse(t) \/ CeCheck(t) \/ CeLoad(t) \/ HrRerank(t) \/ Finish(t)
  \/ Mutate

\* sparse searches and readers of get_all_chunks, uploads and clears
NextThreads ==
  \/ \E t \in ReqThreads :
       \/ \E op \in SearchOps, q \in SearchQueries : Start(t, op, q)
       \/ BmSize(t) \/ BmCheck(t)
       \/ GacCount(t) \/ GacCheck(t) \/ GacGet(t) \/ GacSetCache(t)
       \/ GacSetSize(t) \/ GacRet(t)
       \/ BmSetIndex(t) \/ BmSetChunks(t) \/ BmSetSize(t)
       \/ BmRetIndex(t) \/ BmRetChunks(t)
       \/ Finish(t)
  \/ Mutate

\* one request, upload or clear at a time, each run from start to end
Spec == Init /\ [][Next]_vars

\* requests, uploads and clears on concurrent threads
SpecThreads == InitThreads /\ [][NextThreads]_vars

\* ------------------------------------------------------------------------
\* Fusion and re-ranking on arbitrary candidate lists
\* ------------------------------------------------------------------------
FusionTexts == {ChunkText("A", i) : i \in 1..NumTexts}

TextLists == UNION {[1..n -> FusionTexts] : n \in 0..MaxListLen}

\* a candidate list with the given texts; the page tells the occurrences apart
Candidates(texts, source, firstPage) ==
  [i \in 1..Len(texts) |->
     [chunk |-> texts[i],
      metadata |-> [document |-> "A", page |-> firstPage + i, chunk_index |-> i - 1],
      score |-> i,
      source |-> source]]

\* hybrid_retrieve is about to fuse some dense and some sparse candidate list
InitFusion ==
  /\ sched = "serial"
  /\ budget = [req |-> 1, mut |-> 1]
  /\ collection = <<>>
  /\ all_chunks_cache = None
  /\ all_chunks_cache_size = -1
  /\ bm25_cache_size = -1
  /\ bm25_index = None
  /\ bm25_chunks = <<>>
  /\ ing = [u \in IngThreads |-> IdleIng]
  /\ embed_queue = <<>>
  /\ worker = IdleWorker
  /\ embed_model = 1
  /\ cross_encoder = 0
  /\ sessions = <<>>
  /\ \E d \in TextLists, b \in TextLists, q \in Queries :
       req = [t \in ReqThreads |->
                IF t = SerialThread
                THEN [IdleReq EXCEPT !.pc = "hr_fuse", !.op = "hybrid_retrieve",
                                     !.query = q,
                                     !.semantic_hits = Candidates(d, "semantic", 0),
                                     !.bm25_hits = Candidates(b, "bm25", MaxListLen)]
                ELSE IdleReq]

NextFusion == \E t \in ReqThreads : HrFuse(t) \/ CeCheck(t) \/ CeLoad(t) \/ HrRerank(t)

SpecFusion == InitFusion /\ [][NextFusion]_vars

\* ------------------------------------------------------------------------
\* Properties
\* ------------------------------------------------------------------------
Finished(t) == req[t].pc = "done"

HybridStages == {"embed", "dense", "bm25", "rebuild", "fusion", "cross_encoder"}

\* the stored chunks whose page is one of P, in store order, with score 1.0
ChunksOnPages(P) ==
  LET hit == SelectSeq(collection, LAMBDA c : c.metadata.page \in P)
  IN [i \in 1..Len(hit) |->
        [chunk |-> hit[i].chunk, metadata |-> hit[i].metadata, rerank_score |-> 1]]

\* C1: a query_rag request whose query names pages, at least one of which a
\* stored chunk is on, returns exactly the chunks on those pages, each with
\* score 1.0, and runs no dense search, sparse search, index rebuild, fusion or
\* re-ranking, whatever the corpus size.
C1_PageTargeted ==
  \A t \in ReqThreads :
    (/\ Finished(t)
     /\ req[t].op = "query_rag"
     /\ size > 0
     /\ \E c \in Range(collection) : c.metadata.page \in PageSet(req[t].query))
    => /\ req[t].results = ChunksOnPages(PageSet(req[t].query))
       /\ req[t].stages \cap HybridStages = {}
       /\ ~req[t].raised

\* a page-targeted answer of several pages from a corpus above the threshold
C1_Witness ==
  \E t \in ReqThreads :
    /\ Finished(t)
    /\ req[t].op = "query_rag"
    /\ req[t].mode = "page"
    /\ size > FULL_DOC_CHUNK_THRESHOLD
    /\ Cardinality({req[t].results[i].metadata.page : i \in 1..Len(req[t].results)}) > 1

\* C2: for a query without page reference on a non-empty store, query_rag
\* returns every stored chunk with score 1.0 and runs no hybrid retrieval when
\* the store has at most 40 chunks, and runs hybrid retrieval when it has 41
\* or more.
C2_FullCorpusThreshold ==
  \A t \in ReqThreads :
    (/\ Finished(t)
     /\ req[t].op = "query_rag"
     /\ size > 0
     /\ PageSet(req[t].query) = {})
    => IF size <= 40
       THEN /\ req[t].results =
                 [i \in 1..size |->
                    [chunk |-> collection[i].chunk,
                     metadata |-> collection[i].metadata,
                     rerank_score |-> 1]]
            /\ req[t].stages \cap HybridStages = {}
       ELSE /\ req[t].mode = "hybrid"
            /\ {"dense", "bm25", "fusion", "cross_encoder"} \subseteq req[t].stages

\* full-corpus mode at exactly the threshold
C2_Witness ==
  \E t \in ReqThreads :
    /\ Finished(t)
    /\ req[t].op = "query_rag"
    /\ PageSet(req[t].query) = {}
    /\ size = 40
    /\ req[t].mode = "full"
    /\ Len(req[t].results) = 40

\* C3: when the query names pages and no stored chunk is on any of them,
\* query_rag on a non-empty store runs hybrid retrieval (dense, sparse, fusion,
\* re-rank): it does not return an empty result of its own and does not use
\* full-corpus mode, also at or below the full-corpus threshold.
C3_PageMissRunsHybrid ==
  \A t \in ReqThreads :
    (/\ Finished(t)
     /\ req[t].op = "query_rag"
     /\ size > 0
     /\ PageSet(req[t].query) # {}
     /\ \A c \in Range(collection) : c.metadata.page \notin PageSet(req[t].query))
    => /\ req[t].mode = "hybrid"
       /\ {"embed", "dense", "bm25", "fusion", "cross_encoder"} \subseteq req[t].stages
       /\ req[t].results # <<>>
       /\ \A i \in 1..Len(req[t].results) : req[t].results[i].source \in {"semantic", "bm25"}

\* a page miss answered by hybrid retrieval on a corpus below the threshold
C3_Witness ==
  \E t \in ReqThreads :
    /\ Finished(t)
    /\ req[t].op = "query_rag"
    /\ PageSet(req[t].query) # {}
    /\ size > 0
    /\ size <= FULL_DOC_CHUNK_THRESHOLD
    /\ req[t].mode = "hybrid"
    /\ req[t].results # <<>>

\* C4: on an empty store every retrieval entry point (query_rag,
\* hybrid_retrieve, retrieve, the dense search, the sparse search) returns an
\* empty list, does not raise, and invokes neither the embedding model nor the
\* cross-encoder nor a rebuild of the sparse index.
C4_EmptyStore ==
  \A t \in ReqThreads :
    (Finished(t) /\ req[t].op \in Ops /\ size = 0)
    => /\ req[t].results = <<>>
       /\ ~req[t].raised
       /\ req[t].stages \cap {"embed", "cross_encoder", "rebuild"} = {}

\* the dense search returned on an empty store
C4_Witness ==
  \E t \in ReqThreads :
    /\ Finished(t)
    /\ req[t].op = "search"
    /\ size = 0
    /\ req[t].results = <<>>

\* the request of thread t ran the sparse search
RanSparse(t) ==
  /\ Finished(t)
  /\ req[t].op = "bm25_search" \/ req[t].mode = "hybrid"

\* the request of thread t started on a non-empty store whose chunk count
\* differed from the count recorded with the sparse index
StartedStale(t) == req[t].pre.size # 0 /\ req[t].pre.size # req[t].pre.cache_size

\* the token lists of the chunks now stored
TokensOfStore == [i \in 1..size |-> Tokenize(collection[i].chunk)]

\* the hits of res are chunks now stored
FromStore(res) ==
  \A i \in 1..Len(res) :
    [chunk |-> res[i].chunk, metadata |-> res[i].metadata] \in Range(collection)

\* C5: a sparse search that finds the stored chunk count different from the
\* count recorded with the index rebuilds the index from the chunks now stored
\* before scoring, records the new count, and scores the query against the new
\* index: only chunks now stored are returned.
C5_StaleIndexRebuilt ==
  \A t \in ReqThreads :
    (RanSparse(t) /\ StartedStale(t))
    => /\ "rebuild" \in req[t].stages
       /\ bm25_index = Some(TokensOfStore)
       /\ bm25_chunks = collection
       /\ bm25_cache_size = size
       /\ req[t].bm25 = Some(TokensOfStore)
       /\ req[t].chunks = collection
       /\ ~req[t].raised
       /\ req[t].op = "bm25_search" =>
            /\ FromStore(req[t].results)
            /\ req[t].results =
                 bm25_scan(TokensOfStore, collection, req[t].query, RETRIEVAL_TOP_K).hits

\* a sparse search after the corpus grew returns a chunk the previous index
\* did not hold
C5_Witness ==
  \E t \in ReqThreads :
    /\ RanSparse(t)
    /\ req[t].op = "bm25_search"
    /\ StartedStale(t)
    /\ req[t].pre.cache_size > 0
    /\ \E i \in 1..Len(req[t].results) :
         \A c \in Range(req[t].pre.chunks) : c.chunk # req[t].results[i].chunk

\* C6: a sparse search that finds the stored chunk count equal to the count
\* recorded with the index does not rebuild: the cached index, chunk list and
\* count stay as they were, and the store's chunks are not re-read.
C6_FreshIndexReused ==
  \A t \in ReqThreads :
    (RanSparse(t) /\ req[t].pre.size = req[t].pre.cache_size)
    => /\ req[t].stages \cap {"rebuild", "get_all_chunks"} = {}
       /\ bm25_index = req[t].pre.index
       /\ bm25_chunks = req[t].pre.chunks
       /\ bm25_cache_size = req[t].pre.cache_size
       /\ req[t].bm25 = req[t].pre.index
       /\ req[t].chunks = req[t].pre.chunks

\* a second sparse search on an unchanged corpus returns hits from the cache
C6_Witness ==
  \E t \in ReqThreads :
    /\ RanSparse(t)
    /\ req[t].op = "bm25_search"
    /\ req[t].pre.size = req[t].pre.cache_size
    /\ req[t].results # <<>>

\* C7: because ingestion clears the store and then repopulates it, deciding
\* staleness by the chunk count alone is safe: a sparse search returns chunks
\* of the document now stored, never of a replaced one.
C7_CountInvalidationSafe ==
  \A t \in ReqThreads :
    (Finished(t) /\ req[t].op = "bm25_search") => FromStore(req[t].results)

\* no upload or clear was in progress from the start of t's request on
CorpusFixed(t) == ~req[t].dirty

\* C8: with the corpus fixed, every request that finds the sparse index stale
\* rebuilds it to the same result, whatever other requests run concurrently:
\* each gets the answer a single rebuild from the stored chunks gives, and
\* once no request is in flight the cache holds the index of the stored chunks
\* with their count.
C8_ConcurrentRebuildsEquivalent ==
  \A t \in ReqThreads :
    (/\ Finished(t)
     /\ req[t].op = "bm25_search"
     /\ StartedStale(t)
     /\ CorpusFixed(t))
    => /\ ~req[t].raised
       /\ req[t].results =
            bm25_scan(TokensOfStore, collection, req[t].query, RETRIEVAL_TOP_K).hits
       /\ (\A t2 \in ReqThreads : req[t2].pc \in {"idle", "done"})
            => /\ bm25_index = Some(TokensOfStore)
               /\ bm25_chunks = collection
               /\ bm25_cache_size = size

\* C9: without a lock, concurrent sparse searches never raise and never score
\* against a half-updated cache: the index and the chunk list a search uses
\* come from one build.
C9_SearchUsesOneBuild ==
  \A t \in ReqThreads :
    (Finished(t) /\ req[t].op = "bm25_search")
    => /\ ~req[t].raised
       /\ ~IsNone(req[t].bm25) =>
            TheVal(req[t].bm25) =
              [i \in 1..Len(req[t].chunks) |-> Tokenize(req[t].chunks[i].chunk)]

\* the contributions weight/(60 + r + 1), in the fixed point of rrf_scores, of
\* the 0-based positions r at which text occurs in list
Contributions(list, text, weightTenths) ==
  SeqSum([p \in 1..Len(list) |->
            IF list[p].chunk = text
            THEN (weightTenths * RRF_SCALE) \div (10 * (60 + (p - 1) + 1))
            ELSE 0])

\* C10: rank fusion returns one entry for every distinct chunk text of the
\* dense and the sparse list; the entry's fused score is the sum of
\* 0.7/(60 + r + 1) over the text's 0-based positions r in the dense list plus
\* 0.3/(60 + r + 1) over its positions in the sparse list; the entries are in
\* non-increasing order of the fused score.
C10_FusedScores ==
  \A t \in ReqThreads :
    req[t].pc = "hr_rerank" =>
      LET dense == req[t].semantic_hits
          sparse == req[t].bm25_hits
          fused == req[t].fused
          texts == {dense[p].chunk : p \in 1..Len(dense)}
                     \cup {sparse[p].chunk : p \in 1..Len(sparse)}
      IN /\ {fused[i].chunk : i \in 1..Len(fused)} = texts
         /\ Len(fused) = Cardinality(texts)
         /\ \A i \in 1..Len(fused) :
              fused[i].rrf_score =
                Contributions(dense, fused[i].chunk, 7)
                  + Contributions(sparse, fused[i].chunk, 3)
         /\ \A i, j \in 1..Len(fused) :
              i < j => fused[i].rrf_score >= fused[j].rrf_score

\* fusion of lists in which one text is in both lists and twice in the dense one
C10_Witness ==
  \E t \in ReqThreads :
    /\ req[t].pc = "hr_rerank"
    /\ Len(req[t].fused) >= 2
    /\ \E p, q \in 1..Len(req[t].semantic_hits), s \in 1..Len(req[t].bm25_hits) :
         /\ p < q
         /\ req[t].semantic_hits[p].chunk = req[t].semantic_hits[q].chunk
         /\ req[t].semantic_hits[p].chunk = req[t].bm25_hits[s].chunk

\* the chunk texts of a candidate list
TextsOf(list) == {list[p].chunk : p \in 1..Len(list)}

\* C11: the fused list has exactly one entry for each distinct chunk text of
\* the dense and the sparse list: no text appears twice, none is missing, and
\* the fused length is the number of distinct texts of the two lists together.
C11_OneEntryPerText ==
  \A t \in ReqThreads :
    req[t].pc = "hr_rerank" =>
      LET fused == req[t].fused
          texts == TextsOf(req[t].semantic_hits) \cup TextsOf(req[t].bm25_hits)
      IN /\ \A i, j \in 1..Len(fused) : fused[i].chunk = fused[j].chunk => i = j
         /\ \A x \in texts : \E i \in 1..Len(fused) : fused[i].chunk = x
         /\ \A i \in 1..Len(fused) : fused[i].chunk \in texts
         /\ Len(fused) = Cardinality(texts)

\* two texts, each returned by both searches, fused into two entries
C11_Witness ==
  \E t \in ReqThreads :
    /\ req[t].pc = "hr_rerank"
    /\ Len(req[t].fused) = 2
    /\ Len(req[t].semantic_hits) >= 2
    /\ TextsOf(req[t].semantic_hits) = TextsOf(req[t].bm25_hits)
    /\ Cardinality(TextsOf(req[t].bm25_hits)) = 2

\* ------------------------------------------------------------------------
\* Fusion of full-width lists: one chunk found by both searches, compared
\* with chunks found by one search at the same positions
\* ------------------------------------------------------------------------
\* the 0-based positions of a first-pass list
Positions == 0..(RETRIEVAL_TOP_K - 1)

\* a first-pass list of distinct texts with the given text at position pos
RankedList(tag, pos, text, source) ==
  [i \in 1..RETRIEVAL_TOP_K |->
     [chunk |-> IF i - 1 = pos THEN text ELSE <<tag, ToString(i)>>,
      metadata |-> [document |-> "A", page |-> i, chunk_index |-> i - 1],
      score |-> i,
      source |-> source]]

\* two hybrid requests are about to fuse: the first found one chunk at dense
\* position r and sparse position s, the second found different chunks there
InitRanks ==
  /\ sched = "threads"
  /\ budget = [req |-> 0, mut |-> 0]
  /\ collection = <<>>
  /\ all_chunks_cache = None
  /\ all_chunks_cache_size = -1
  /\ bm25_cache_size = -1
  /\ bm25_index = None
  /\ bm25_chunks = <<>>
  /\ ing = [u \in IngThreads |-> IdleIng]
  /\ embed_queue = <<>>
  /\ worker = IdleWorker
  /\ embed_model = 1
  /\ cross_encoder = 0
  /\ sessions = <<>>
  /\ \E r \in Positions, s \in Positions :
       req = [t \in ReqThreads |->
                [IdleReq EXCEPT
                   !.pc = "hr_fuse", !.op = "hybrid_retrieve",
                   !.query = <<"payment", "terms">>,
                   !.semantic_hits =
                      RankedList("d", r, IF t = SerialThread THEN <<"payment", "terms">>
                                         ELSE <<"payment", "due">>, "semantic"),
                   !.bm25_hits =
                      RankedList("s", s, IF t = SerialThread THEN <<"payment", "terms">>
                                         ELSE <<"payment", "by", "invoice">>, "bm25")]]

NextRanks == \E t \in ReqThreads : HrFuse(t) \/ CeCheck(t) \/ CeLoad(t) \/ HrRerank(t)

SpecRanks == InitRanks /\ [][NextRanks]_vars

\* the 0-based positions of text in list
PositionsOf(list, text) == {p - 1 : p \in {x \in 1..Len(list) : list[x].chunk = text}}

\* the fused score of text
FusedScore(fused, text) ==
  fused[CHOOSE i \in 1..Len(fused) : fused[i].chunk = text].rrf_score

\* C12: a chunk at position r of the dense list and position s of the sparse
\* list gets a fused score strictly greater than a chunk that is only in a
\* dense list, at position r, and than a chunk that is only in a sparse list,
\* at position s, for all positions r and s of the first-pass width.
C12_ConsensusScoresHigher ==
  \A t1, t2 \in ReqThreads :
    (req[t1].pc = "hr_rerank" /\ req[t2].pc = "hr_rerank") =>
      \A r, s \in Positions :
        LET d1 == req[t1].semantic_hits
            s1 == req[t1].bm25_hits
            d2 == req[t2].semantic_hits
            s2 == req[t2].bm25_hits
        IN (/\ r < Len(d1) /\ s < Len(s1)
            /\ d1[r + 1].chunk = s1[s + 1].chunk
            /\ PositionsOf(d1, d1[r + 1].chunk) = {r}
            /\ PositionsOf(s1, d1[r + 1].chunk) = {s})
           => /\ (/\ r < Len(d2)
                  /\ PositionsOf(d2, d2[r + 1].chunk) = {r}
                  /\ PositionsOf(s2, d2[r + 1].chunk) = {})
                 => FusedScore(req[t1].fused, d1[r + 1].chunk)
                      > FusedScore(req[t2].fused, d2[r + 1].chunk)
              /\ (/\ s < Len(s2)
                  /\ PositionsOf(s2, s2[s + 1].chunk) = {s}
                  /\ PositionsOf(d2, s2[s + 1].chunk) = {})
                 => FusedScore(req[t1].fused, d1[r + 1].chunk)
                      > FusedScore(req[t2].fused, s2[s + 1].chunk)

\* both fusions done, the common chunk last in the dense list and first in
\* the sparse list
C12_Witness ==
  \E t1, t2 \in ReqThreads :
    /\ t1 # t2
    /\ req[t1].pc = "hr_rerank"
    /\ req[t2].pc = "hr_rerank"
    /\ req[t1].semantic_hits[RETRIEVAL_TOP_K].chunk = req[t1].bm25_hits[1].chunk
    /\ PositionsOf(req[t2].bm25_hits, req[t2].semantic_hits[RETRIEVAL_TOP_K].chunk) = {}
    /\ Len(req[t1].fused) = 2 * RETRIEVAL_TOP_K - 1
    /\ Len(req[t2].fused) = 2 * RETRIEVAL_TOP_K

\* the first occurrence of text among the fusion inputs: the dense list
\* before the sparse list, a lower rank before a higher rank
FirstOccurrence(dense, sparse, text) ==
  IF PositionsOf(dense, text) # {}
  THEN dense[1 + CHOOSE p \in PositionsOf(dense, text) :
                   \A p2 \in PositionsOf(dense, text) : p <= p2]
  ELSE sparse[1 + CHOOSE p \in PositionsOf(sparse, text) :
                     \A p2 \in PositionsOf(sparse, text) : p <= p2]

\* C13: when a chunk text occurs more than once among the fusion inputs, its
\* fused entry carries the metadata and payload of the first occurrence,
\* taking the dense list before the sparse list and a lower rank before a
\* higher rank.
C13_FirstOccurrenceKept ==
  \A t \in ReqThreads :
    req[t].pc = "hr_rerank" =>
      \A i \in 1..Len(req[t].fused) :
        LET e == req[t].fused[i]
            first == FirstOccurrence(req[t].semantic_hits, req[t].bm25_hits, e.chunk)
        IN /\ e.metadata = first.metadata
           /\ e.score = first.score
           /\ e.source = first.source

\* thread t takes the step in which hybrid_retrieve re-ranks and returns
RerankStep(t) ==
  /\ req[t].pc = "hr_rerank"
  /\ req'[t].pc = "done"
  /\ req[t].op = "hybrid_retrieve"

\* the candidates hybrid_retrieve hands to the re-ranker
RerankInput(t) == SubSeq(req[t].fused, 1, Min(2 * RETRIEVAL_TOP_K, Len(req[t].fused)))

\* C14: the re-ranker returns min(top_k, number of candidates) of the
\* candidates, each with its cross-encoder score, in non-increasing order of
\* that score, and no candidate left out has a score strictly greater than a
\* returned one.
C14_RerankOrder ==
  [][\A t \in ReqThreads :
       RerankStep(t) =>
         LET cands == RerankInput(t)
             out == req'[t].results
             q == req[t].query
         IN /\ Len(out) = Min(RERANK_TOP_K, Len(cands))
            /\ \A i \in 1..Len(out) :
                 /\ out[i].chunk \in TextsOf(cands)
                 /\ out[i].rerank_score = CEScore(q, out[i].chunk)
            /\ \A i, j \in 1..Len(out) :
                 i < j => out[i].rerank_score >= out[j].rerank_score
            /\ \A c \in 1..Len(cands) :
                 cands[c].chunk \notin TextsOf(out) =>
                   \A i \in 1..Len(out) :
                     CEScore(q, cands[c].chunk) <= out[i].rerank_score]_vars

\* an answer cut to the re-rank width whose cross-encoder scores differ
C14_Witness ==
  \E t \in ReqThreads :
    /\ Finished(t)
    /\ req[t].op = "hybrid_retrieve"
    /\ req[t].mode = "hybrid"
    /\ size > RERANK_TOP_K
    /\ Len(req[t].results) = RERANK_TOP_K
    /\ req[t].results[1].rerank_score > req[t].results[RERANK_TOP_K].rerank_score

\* thread t takes the step in which a request in hybrid mode gets its results
HybridReturns(t) == req[t].pc = "hr_rerank" /\ req'[t].pc = "done"

\* C15: a request in hybrid mode returns at most 5 results whatever the
\* corpus size; every result is a chunk that the dense search or the sparse
\* search of the same request produced, and carries its cross-encoder score.
C15_HybridResultsBounded ==
  [][\A t \in ReqThreads :
       HybridReturns(t) =>
         /\ ~req'[t].raised
         /\ req'[t].mode = "hybrid"
         /\ Len(req'[t].results) <= 5
         /\ \A i \in 1..Len(req'[t].results) :
              LET res == req'[t].results[i]
              IN /\ \E h \in Range(req[t].semantic_hits) \cup Range(req[t].bm25_hits) :
                      h.chunk = res.chunk /\ h.metadata = res.metadata
                 /\ res.rerank_score = CEScore(req[t].query, res.chunk)]_vars

\* query_rag answered in hybrid mode, with 5 results, on a corpus above the
\* full-corpus threshold
C15_Witness ==
  \E t \in ReqThreads :
    /\ Finished(t)
    /\ req[t].op = "query_rag"
    /\ req[t].mode = "hybrid"
    /\ size > FULL_DOC_CHUNK_THRESHOLD
    /\ Len(req[t].results) = 5
    /\ \A i \in 1..5 : "rerank_score" \in DOMAIN req[t].results[i]

\* ------------------------------------------------------------------------
\* Hybrid retrievals one after another, each caller keeping its answer
\* ------------------------------------------------------------------------
InitSequence ==
  /\ sched = "sequence"
  /\ budget = [req |-> MaxRequests, mut |-> MaxMutations]
  /\ InitState

NextSequence ==
  \/ \E t \in ReqThreads :
       \/ \E q \in Queries : Start(t, "hybrid_retrieve", q)
       \/ HrSize(t) \/ HrK(t) \/ VsCount(t) \/ GmCheck(t) \/ GmLoad(t) \/ VsQuery(t)
       \/ BmSize(t) \/ BmCheck(t)
       \/ GacCount(t) \/ GacCheck(t) \/ GacGet(t) \/ GacSetCache(t)
       \/ GacSetSize(t) \/ GacRet(t)
       \/ BmSetIndex(t) \/ BmSetChunks(t) \/ BmSetSize(t)
       \/ BmRetIndex(t) \/ BmRetChunks(t)
       \/ HrFuse(t) \/ CeCheck(t) \/ CeLoad(t) \/ HrRerank(t) \/ Finish(t)
  \/ Mutate

SpecSequence == InitSequence /\ [][NextSequence]_vars

\* C16: with the corpus unchanged, two calls of the hybrid path, one after
\* the other with the same query, return the same chunks in the same order
\* with the same scores, also when the first call rebuilds the sparse index.
C16_RepeatedCallSameResult ==
  \A t1, t2 \in ReqThreads :
    (/\ Finished(t1) /\ Finished(t2)
     /\ req[t1].op = "hybrid_retrieve" /\ req[t2].op = "hybrid_retrieve"
     /\ req[t1].query = req[t2].query
     /\ ~req[t1].dirty /\ ~req[t2].dirty)
    => /\ req[t1].results = req[t2].results
       /\ req[t1].raised = req[t2].raised

\* two answers to the same query, the first call having rebuilt the sparse
\* index and the second having used the cached one
C16_Witness ==
  \E t1, t2 \in ReqThreads :
    /\ Finished(t1) /\ Finished(t2)
    /\ req[t1].op = "hybrid_retrieve" /\ req[t2].op = "hybrid_retrieve"
    /\ req[t1].query = req[t2].query
    /\ ~req[t1].dirty /\ ~req[t2].dirty
    /\ "rebuild" \in req[t1].stages
    /\ "rebuild" \notin req[t2].stages
    /\ "bm25" \in req[t2].stages
    /\ Len(req[t2].results) > 1
    /\ \E i \in 1..Len(req[t2].results) : req[t2].results[i].rrf_score > (7 * RRF_SCALE) \div 610

\* the answer of hybrid_retrieve to query q in a run that reached the present
\* store contents by one upload and ran no query before
HybridFromScratch(q) ==
  IF size = 0 THEN <<>>
  ELSE LET k == Min(RETRIEVAL_TOP_K, size)
           hits == collection_query(collection, q, k)
           dense == [i \in 1..Len(hits) |->
                       [chunk |-> hits[i].chunk, metadata |-> hits[i].metadata,
                        score |-> hits[i].score, source |-> "semantic"]]
           sparse == bm25_scan(TokensOfStore, collection, q, k).hits
           fused == reciprocal_rank_fusion(dense, sparse)
       IN rerank(q, SubSeq(fused, 1, Min(2 * RETRIEVAL_TOP_K, Len(fused))), RERANK_TOP_K)

\* C17: the ordered result of a retrieval request is determined by the query
\* and the store contents alone: whatever uploads, clears and earlier queries
\* led to the present store contents, the request returns what it returns in
\* a run that reached the same contents without any earlier query.
C17_HistoryIndependent ==
  \A t \in ReqThreads :
    (Finished(t) /\ req[t].op = "hybrid_retrieve")
    => /\ ~req[t].raised
       /\ req[t].results = HybridFromScratch(req[t].query)

\* the scores of the chunks of the index that thread t's sparse search used
IndexScores(t) == get_scores(TheVal(req[t].bm25), Tokenize(req[t].query))

\* what a full descending sort of scores, truncation to k and removal of the
\* scores <= 0 give
PositiveTop(scores, k) ==
  LET order == StableOrderDesc(scores)
      largest == [i \in 1..Min(k, Len(scores)) |-> scores[order[i]]]
  IN SelectSeq(largest, LAMBDA x : x > 0)

\* C18: a sparse search of width k returns at most k candidates, each tagged
\* "bm25" and with a strictly positive score, in non-increasing score order;
\* the returned scores are exactly the strictly positive ones among the k
\* largest scores of the indexed chunks.
C18_SparseTopK ==
  \A t \in ReqThreads :
    (Finished(t) /\ req[t].op = "bm25_search" /\ ~IsNone(req[t].bm25))
    => LET res == req[t].results
       IN /\ ~req[t].raised
          /\ Len(res) <= RETRIEVAL_TOP_K
          /\ \A i \in 1..Len(res) : res[i].source = "bm25" /\ res[i].score > 0
          /\ \A i, j \in 1..Len(res) : i < j => res[i].score >= res[j].score
          /\ [i \in 1..Len(res) |-> res[i].score]
               = PositiveTop(IndexScores(t), RETRIEVAL_TOP_K)

\* a sparse search that returned k candidates of differing scores out of
\* more than k chunks with a positive score
C18_Witness ==
  \E t \in ReqThreads :
    /\ Finished(t)
    /\ req[t].op = "bm25_search"
    /\ ~IsNone(req[t].bm25)
    /\ Len(req[t].results) = RETRIEVAL_TOP_K
    /\ Cardinality({j \in 1..Len(IndexScores(t)) : IndexScores(t)[j] > 0}) > RETRIEVAL_TOP_K
    /\ req[t].results[1].score > req[t].results[RETRIEVAL_TOP_K].score

\* ------------------------------------------------------------------------
\* Requests during which a model cannot be loaded or fails
\* ------------------------------------------------------------------------
\* embed_query raised: VectorStore.search has no handler, nor have its callers
on_embed_failure(r) == Raise(Stage(r, {"embed", "embed_failed"}))

\* a re-ranking that falls back to the fused order when the model fails
on_cross_encoder_failure_fused(r) ==
  Done(Stage(r, {"cross_encoder", "cross_encoder_failed"}), "hybrid",
       SubSeq(r.fused, 1, Min(RERANK_TOP_K, Len(r.fused))))

\* _get_cross_encoder or ce.predict raised: _rerank has no handler, nor has
\* hybrid_retrieve
on_cross_encoder_failure(r) ==
  Raise(Stage(r, {"cross_encoder", "cross_encoder_failed"}))

\* VectorStore.search: q_emb = embed_query(query) raises, in the loading of
\* the model (which then stays unset) or in model.encode
EmbedFails(t) ==
  /\ req[t].pc \in {"gm_load", "vs_query"}
  /\ MayRunReq(t)
  /\ req' = [req EXCEPT ![t] = on_embed_failure(req[t])]
  /\ UNCHANGED <<storeVars, bm25Vars, ingVars, envVars, procVars>>

\* _rerank: ce = _get_cross_encoder() or ce.predict(pairs) raises
CrossEncoderFails(t) ==
  /\ req[t].pc \in {"ce_load", "hr_rerank"}
  /\ req[t].fused # <<>>
  /\ MayRunReq(t)
  /\ req' = [req EXCEPT ![t] = on_cross_encoder_failure(req[t])]
  /\ UNCHANGED <<storeVars, bm25Vars, ingVars, envVars, procVars>>

NextFaults ==
  \/ Next
  \/ \E t \in ReqThreads : EmbedFails(t) \/ CrossEncoderFails(t)

SpecFaults == Init /\ [][NextFaults]_vars

ModelFailed(t) == req[t].stages \cap {"embed_failed", "cross_encoder_failed"} # {}

\* C19: when the embedding model or the cross-encoder cannot be loaded or
\* fails during a request, the request ends in an error for the caller: no
\* fused, dense-only or sparse-only list is returned, and the request takes no
\* further step (no stage is retried).
C19_ModelFailurePropagates ==
  \A t \in ReqThreads :
    ModelFailed(t)
    => /\ Finished(t)
       /\ req[t].raised
       /\ req[t].results = <<>>
       /\ req[t].mode # "hybrid"

\* the cross-encoder failed after dense search, sparse search and fusion had
\* produced candidates
C19_Witness ==
  \E t \in ReqThreads :
    /\ Finished(t)
    /\ req[t].op = "hybrid_retrieve"
    /\ "cross_encoder_failed" \in req[t].stages
    /\ {"dense", "bm25", "fusion"} \subseteq req[t].stages
    /\ req[t].raised
    /\ size > 0


\* a page range whose start exceeds its end
ReversedRange(q) ==
  \E i \in 1..Len(q) :
    RangeMatch(q, i) /\ ParseInt(q[i + 1]) > ParseInt(q[i + 3])

\* C20: a query_rag request on a non-empty store whose only page reference is
\* a range whose start exceeds its end does not fail, abandons the
\* page-targeted path and is answered in hybrid mode.
C20_ReversedRangeRunsHybrid ==
  \A t \in ReqThreads :
    (/\ Finished(t)
     /\ req[t].op = "query_rag"
     /\ size > 0
     /\ ReversedRange(req[t].query)
     /\ \A i \in 1..Len(req[t].query) :
          /\ RangeMatch(req[t].query, i) => ParseInt(req[t].query[i + 1]) > ParseInt(req[t].query[i + 3])
          /\ ~ListMatch(req[t].query, i)
          /\ ~PgMatch(req[t].query, i)
          /\ ~PrepMatch(req[t].query, i))
    => /\ ~req[t].raised
       /\ req[t].mode = "hybrid"
       /\ {"dense", "bm25", "fusion", "cross_encoder"} \subseteq req[t].stages


\* ------------------------------------------------------------------------
\* query_rag on queries that name a page range
\* ------------------------------------------------------------------------
\* first pages of the ranges: inside every document, and at the end of the
\* large ones
RangeStarts ==
  {1, (FULL_DOC_CHUNK_THRESHOLD \div ChunksPerPage) - 1,
      FULL_DOC_CHUNK_THRESHOLD \div ChunksPerPage}

RangeQueries ==
  { <<"Summarize", pw, ToString(a), sep, ToString(a + w)>> :
      pw \in {"page", "Pages"}, sep \in {"to", "-"},
      a \in RangeStarts, w \in 0..MaxRangeWidth }

NextPages ==
  \E t \in ReqThreads :
    \/ \E q \in RangeQueries : Start(t, "query_rag", q)
    \/ QrSize(t) \/ QrTotal(t) \/ QrPages(t)
    \/ HrSize(t) \/ HrK(t) \/ VsCount(t) \/ GmCheck(t) \/ GmLoad(t) \/ VsQuery(t)
    \/ BmSize(t) \/ BmCheck(t)
    \/ GacCount(t) \/ GacCheck(t) \/ GacGet(t) \/ GacSetCache(t)
    \/ GacSetSize(t) \/ GacRet(t)
    \/ BmSetIndex(t) \/ BmSetChunks(t) \/ BmSetSize(t)
    \/ BmRetIndex(t) \/ BmRetChunks(t)
    \/ HrFuse(t) \/ CeCheck(t) \/ CeLoad(t) \/ HrRerank(t) \/ Finish(t)

SpecPages == Init /\ [][NextPages]_vars

\* the query's one page reference is a range at word i with start <= end
ForwardRangeAt(q, i) ==
  /\ RangeMatch(q, i)
  /\ ParseInt(q[i + 1]) <= ParseInt(q[i + 3])
  /\ \A j \in 1..Len(q) : j # i => ~IsPageWord(q[j]) /\ LowerWord(q[j]) \notin {"pg", "pg."}

\* C21: for a query whose page reference is a range "pages a to b" with
\* a <= b, page extraction yields a, a+1, ..., b in ascending order, and a
\* page-targeted answer holds every stored chunk on one of these pages and no
\* other chunk.
C21_PageRange ==
  \A t \in ReqThreads :
    \A i \in 1..Len(req[t].query) :
      (req[t].op = "query_rag" /\ ForwardRangeAt(req[t].query, i))
      => LET a == ParseInt(req[t].query[i + 1])
             b == ParseInt(req[t].query[i + 3])
             onRange == {k \in 1..size : collection[k].metadata.page \in a..b}
         IN /\ extract_page_numbers(req[t].query) = [k \in 1..(b - a + 1) |-> a + k - 1]
            /\ (Finished(t) /\ onRange # {})
               => /\ req[t].mode = "page"
                  /\ Len(req[t].results) = Cardinality(onRange)
                  /\ {[chunk |-> req[t].results[k].chunk, metadata |-> req[t].results[k].metadata] :
                        k \in 1..Len(req[t].results)}
                     = {collection[k] : k \in onRange}

\* a range of three pages answered with the chunks of all three
C21_Witness ==
  \E t \in ReqThreads :
    /\ Finished(t)
    /\ req[t].op = "query_rag"
    /\ ForwardRangeAt(req[t].query, 2)
    /\ ParseInt(req[t].query[5]) = ParseInt(req[t].query[3]) + 2
    /\ req[t].mode = "page"
    /\ {req[t].results[k].metadata.page : k \in 1..Len(req[t].results)}
       = ParseInt(req[t].query[3])..ParseInt(req[t].query[5])


\* ------------------------------------------------------------------------
\* The collection deleted by another process while a request runs
\* ------------------------------------------------------------------------
\* positions whose store operation begins with _ensure_collection
\* (VectorStore.size and the first statement of VectorStore.search)
EnsuringPcs == {"qr_size", "qr_total", "rs_size", "hr_size", "hr_k", "vs_count", "bm_size"}
\* positions whose store operation uses self._collection as it is
\* (collection.query inside search, get_all_chunks, get_chunks_by_pages)
BarePcs == {"vs_query", "gac_count", "gac_get", "qr_pages"}

\* the collection is deleted externally just before the request's next store
\* operation; _ensure_collection finds count() raising and re-creates the
\* collection, empty, and the operation goes on
StaleHealed(t) ==
  /\ req[t].pc \in EnsuringPcs
  /\ "stale_handle" \notin req[t].stages
  /\ MayRunReq(t)
  /\ collection' = <<>>
  /\ req' = [req EXCEPT ![t] = Stage(req[t], {"stale_handle"})]
  /\ UNCHANGED <<all_chunks_cache, all_chunks_cache_size, bm25Vars, ingVars, envVars, procVars>>

\* the collection is deleted externally just before a store operation that
\* does not call _ensure_collection: the call on the stale handle raises
StaleRaises(t) ==
  /\ req[t].pc \in BarePcs
  /\ "stale_handle" \notin req[t].stages
  /\ MayRunReq(t)
  /\ collection' = <<>>
  /\ req' = [req EXCEPT ![t] = Raise(Stage(req[t], {"stale_handle"}))]
  /\ UNCHANGED <<all_chunks_cache, all_chunks_cache_size, bm25Vars, ingVars, envVars, procVars>>

NextStale ==
  \/ Next
  \/ \E t \in ReqThreads : StaleHealed(t) \/ StaleRaises(t)

SpecStale == Init /\ [][NextStale]_vars

\* C22: a request during which the collection handle went stale, at whatever
\* store operation, completes without an error.
C22_StaleHandleHealed ==
  \A t \in ReqThreads :
    (Finished(t) /\ "stale_handle" \in req[t].stages) => ~req[t].raised


\* ------------------------------------------------------------------------
\* Uploads that overlap on two executor threads
\* ------------------------------------------------------------------------
InitUploads ==
  /\ sched = "uploads"
  /\ budget = [req |-> 0, mut |-> MaxMutations + 1]
  /\ InitState

NextUploads == Mutate

SpecUploads == InitUploads /\ [][NextUploads]_vars

\* no upload or clear is running and the embed pool has nothing left to do
IngestQuiet == (\A u \in IngThreads : ~BusyIng(u)) /\ ~PoolBusy

\* C23: once every ingest_document call has completed, whether the calls ran
\* one after another or overlapped, all chunks in the store belong to one
\* document.
C23_SingleDocument ==
  IngestQuiet
  => \A c1, c2 \in Range(collection) : c1.metadata.document = c2.metadata.document


\* ------------------------------------------------------------------------
\* First requests of a process on concurrent threads
\* ------------------------------------------------------------------------
InitSingletons ==
  /\ sched = "threads"
  /\ budget = [req |-> MaxRequests, mut |-> 0]
  /\ InitState

NextSingletons ==
  \E t \in ReqThreads :
    \/ \E q \in SearchQueries : Start(t, "hybrid_retrieve", q)
    \/ HrSize(t) \/ HrK(t) \/ VsCount(t) \/ GmCheck(t) \/ GmLoad(t) \/ VsQuery(t)
    \/ BmSize(t) \/ BmCheck(t)
    \/ GacCount(t) \/ GacCheck(t) \/ GacGet(t) \/ GacSetCache(t)
    \/ GacSetSize(t) \/ GacRet(t)
    \/ BmSetIndex(t) \/ BmSetChunks(t) \/ BmSetSize(t)
    \/ BmRetIndex(t) \/ BmRetChunks(t)
    \/ HrFuse(t) \/ CeCheck(t) \/ CeLoad(t) \/ HrRerank(t) \/ Finish(t)

SpecSingletons == InitSingletons /\ [][NextSingletons]_vars

\* C24: each model loader runs at most once in a process, so the instance
\* that was set first is never replaced by a second one.
C24_LoadedOnce == embed_model <= 1 /\ cross_encoder <= 1


\* C25: a get_all_chunks call that starts after the last upload or clear has
\* finished returns exactly the chunks in the collection, also when earlier
\* uploads or clears ran while another get_all_chunks call was in progress.
C25_CacheInvalidated ==
  \A t \in ReqThreads :
    (/\ Finished(t)
     /\ req[t].op = "get_all_chunks"
     /\ CorpusFixed(t))
    => /\ ~req[t].raised
       /\ req[t].results = collection


\* ------------------------------------------------------------------------
\* Questions answered one at a time, with their conversation memory
\* ------------------------------------------------------------------------
\* the k-th earlier exchange of a session: a question and its answer
Exchange(k) == <<[role |-> "human", rid |-> 0 - k], [role |-> "ai", rid |-> 0 - k]>>

RECURSIVE Exchanges(_)
Exchanges(n) == IF n = 0 THEN <<>> ELSE Exchanges(n - 1) \o Exchange(n)

\* the memory earlier requests left: count sessions, the oldest with
\* firstTurns turns, the others with one exchange
Prefilled(count, firstTurns) ==
  [i \in 1..count |->
     [id |-> i, turns |-> IF i = 1 THEN Exchanges(firstTurns \div 2) ELSE Exchange(1)]]

PrefillCounts == {0, MAX_SESSIONS - 1, MAX_SESSIONS}
PrefillTurns == {2, MAX_TURNS_PER_SESSION}

\* the sessions a client asks in: the default one, the oldest one, new ones
AnswerSessions == {DefaultSession, 1} \cup ((MAX_SESSIONS + 1)..(MAX_SESSIONS + MaxRequests))

InitSessions ==
  /\ sched = "sequence"
  /\ budget = [req |-> MaxRequests, mut |-> MaxMutations]
  /\ \/ collection = <<>>
     \/ \E up \in UploadChoices : collection = Stored(chunk_document(up))
  /\ all_chunks_cache = None
  /\ all_chunks_cache_size = -1
  /\ bm25_cache_size = -1
  /\ bm25_index = None
  /\ bm25_chunks = <<>>
  /\ req = [t \in ReqThreads |-> IdleReq]
  /\ ing = [u \in IngThreads |-> IdleIng]
  /\ embed_queue = <<>>
  /\ worker = IdleWorker
  /\ embed_model = 0
  /\ cross_encoder = 0
  /\ \E count \in PrefillCounts, firstTurns \in PrefillTurns :
       sessions = Prefilled(count, firstTurns)

\* POST /query: answer_question, query_rag(question, session_id)
StartAnswer(t, sid) ==
  /\ req[t].pc = "idle"
  /\ FirstFree(t)
  /\ MayRunReq(t)
  /\ budget.req > 0
  /\ budget' = [budget EXCEPT !.req = @ - 1]
  /\ req' = [req EXCEPT ![t] =
               [IdleReq EXCEPT !.pc = "qa_retrieve", !.op = "answer",
                               !.session = sid, !.rid = budget.req]]
  /\ UNCHANGED <<storeVars, bm25Vars, ingVars, sched, procVars>>

\* query_rag: the empty-store return, else the retrieval, which finds
\* results whenever the store is not empty
QaRetrieve(t) ==
  /\ req[t].pc = "qa_retrieve"
  /\ MayRunReq(t)
  /\ req' = [req EXCEPT ![t] =
               IF size = 0 THEN Done(req[t], "empty", <<>>)
               ELSE [req[t] EXCEPT !.pc = "qa_history"]]
  /\ UNCHANGED <<storeVars, bm25Vars, ingVars, envVars, procVars>>

\* query_rag: for turn in _get_history(session_id)
QaHistory(t) ==
  /\ req[t].pc = "qa_history"
  /\ MayRunReq(t)
  /\ sessions' = get_history(sessions, req[t].session)
  /\ req' = [req EXCEPT ![t] = [req[t] EXCEPT !.pc = "qa_generate"]]
  /\ UNCHANGED <<storeVars, bm25Vars, ingVars, envVars, embed_model, cross_encoder>>

\* query_rag: result = generate(full_prompt, ...), which returns or raises
QaGenerate(t) ==
  /\ req[t].pc = "qa_generate"
  /\ MayRunReq(t)
  /\ \E ok \in BOOLEAN :
       req' = [req EXCEPT ![t] =
                 IF ok THEN [req[t] EXCEPT !.pc = "qa_add_human"] ELSE Raise(req[t])]
  /\ UNCHANGED <<storeVars, bm25Vars, ingVars, envVars, procVars>>

\* query_rag: _add_turn(session_id, "human", question)
QaAddHuman(t) ==
  /\ req[t].pc = "qa_add_human"
  /\ MayRunReq(t)
  /\ sessions' = add_turn(sessions, req[t].session, [role |-> "human", rid |-> req[t].rid])
  /\ req' = [req EXCEPT ![t] = [req[t] EXCEPT !.pc = "qa_add_ai"]]
  /\ UNCHANGED <<storeVars, bm25Vars, ingVars, envVars, embed_model, cross_encoder>>

\* query_rag: _add_turn(session_id, "ai", answer), and the return
QaAddAi(t) ==
  /\ req[t].pc = "qa_add_ai"
  /\ MayRunReq(t)
  /\ sessions' = add_turn(sessions, req[t].session, [role |-> "ai", rid |-> req[t].rid])
  /\ req' = [req EXCEPT ![t] = Done(req[t], "answer", <<>>)]
  /\ UNCHANGED <<storeVars, bm25Vars, ingVars, envVars, embed_model, cross_encoder>>

\* POST /clear-session: clear_session(session_id)
ClearSessionRoute(sid) ==
  /\ \A t \in ReqThreads : ~InFlight(t)
  /\ \A u \in IngThreads : ~BusyIng(u)
  /\ ~PoolBusy
  /\ budget.req > 0
  /\ budget' = [budget EXCEPT !.req = @ - 1]
  /\ sessions' = clear_session(sessions, sid)
  /\ UNCHANGED <<storeVars, bm25Vars, ingVars, req, sched, embed_model, cross_encoder>>

NextSessions ==
  \/ \E t \in ReqThreads :
       \/ \E sid \in AnswerSessions : StartAnswer(t, sid)
       \/ QaRetrieve(t) \/ QaHistory(t) \/ QaGenerate(t)
       \/ QaAddHuman(t) \/ QaAddAi(t) \/ Finish(t)
  \/ \E sid \in AnswerSessions : ClearSessionRoute(sid)
  \/ Mutate

SpecSessions == InitSessions /\ [][NextSessions]_vars

\* no request is between its start and its return
NoRequestInFlight == \A t \in ReqThreads : ~InFlight(t)

\* C26: after any sequence of completed query_rag calls, successful or
\* failing, and of session clears, at most MAX_SESSIONS sessions are stored.
C26_SessionsBounded == NoRequestInFlight => Len(sessions) <= MAX_SESSIONS

\* C27: when an ingest_document call completes, no session holds a turn
\* recorded before it.  Under this schedule no request runs while a document
\* is ingested, so every turn stored at that moment was recorded before.
C27_IngestWipesHistory ==
  [][\A u \in IngThreads :
       (ing[u].op = "ingest" /\ ing[u].pc # "idle" /\ ing'[u].pc = "idle")
       => \A i \in 1..Len(sessions') : sessions'[i].turns = <<>>]_vars

\* C28: once the requests have completed, every 'ai' turn of every session is
\* immediately preceded by the 'human' turn of the same request.
C28_CompleteExchanges ==
  NoRequestInFlight
  => \A i \in 1..Len(sessions) :
       \A k \in 1..Len(sessions[i].turns) :
         sessions[i].turns[k].role = "ai"
         => /\ k > 1
            /\ sessions[i].turns[k - 1].role = "human"
            /\ sessions[i].turns[k - 1].rid = sessions[i].turns[k].rid

\* ------------------------------------------------------------------------
\* The cross-encoder sees the whole fused list
\* ------------------------------------------------------------------------
\* a hybrid retrieval between its fusion and its re-ranking
Fused(t) == req[t].pc \in {"ce_check", "ce_load", "hr_rerank"}

ChunkTexts(hits) == {hits[i].chunk : i \in 1..Len(hits)}

RebuildWriting(t) == req[t].pc \in {"bm_set_chunks", "bm_set_size"}

\* C30: whenever a sparse index is cached and no rebuild is between its
\* assignments, the cached chunk count equals the number of chunks in the
\* cached chunk list, also when the rebuild ran while a document was ingested.
C30_CacheCountMatchesChunks ==
  (~IsNone(bm25_index) /\ \A t \in ReqThreads : ~RebuildWriting(t))
  => bm25_cache_size = Len(bm25_chunks)

====
